---------------------------- MODULE Spec2Model ----------------------------
(***************************************************************************)
(* A model of VulnBot's plan/task store (actions/write_plan.py), planner   *)
(* control loop (actions/planner.py) and terminal-output sanitizer         *)
(* (actions/remote_shell.py), remote shell session and action dispatcher   *)
(* (actions/remote_shell.py, actions/execute_task.py).                     *)
(*                                                                         *)
(* Python objects are modelled with an object store: `heap` is a sequence  *)
(* of Task records and an object id is an index into it.  A task list is a *)
(* sequence of object ids, so that a list holding the same Task object     *)
(* twice, and a mutation seen through every reference, are representable.  *)
(* Python positions and sequence numbers are 0-based; position k of a      *)
(* list is element k+1 of the TLA+ sequence.                               *)
(***************************************************************************)
EXTENDS Integers, Sequences, FiniteSets, TLC

VARIABLES
    heap,       \* object store: Seq of Task records
    tasks,      \* current_plan.tasks: Seq of object ids
    json,       \* the task-spec list handed to the last import/merge call
    status,     \* outcome of the last call: "init", "ok" or "KeyError"
    old,        \* [heap, tasks] as they were when the last call started
    op,         \* name of the last operation
    current_task_sequence,  \* current_plan.current_task_sequence
    react_chat_id,          \* current_plan.react_chat_id
    plan_chat_id,           \* current_plan.plan_chat_id
    pc,         \* the planner's caller: "idle" or "executing" a handed-out task
    calls,      \* plan() and update_plan() calls made so far
    round_log,  \* what the last plan() or update_plan() call did
    elaborations, \* the (conversation id, instruction) pairs next_task_details used
    response,   \* the judgment response (check_success) last parsed
    verdict,    \* what became of it: "none", "success", "failed", "rate_limit"
    output,     \* raw terminal output handed to the sanitizer
    sanitized,  \* the sanitizer's result
    cmd,        \* the command handed to RemoteShell.execute_cmd
    sent,       \* what was sent on the shell channel / to the search collaborator
    returned,   \* the return value of the last execute_cmd or parse_response call
    exec_action,       \* ExecuteTask.action
    exec_instruction,  \* ExecuteTask.instruction
    exec_code,         \* ExecuteTask.code
    exec_response,     \* ExecuteResult.response of the last run
    content_len,       \* len(text) of the text handed to needs_summarization
    budget,            \* what the context budget check found
    recv,              \* SSHOutputHandler.receive_data: the state of its loop
    channel,           \* what the channel gave to the reads of the last execute_cmd,
                       \* or the calls and the raw transcript of the last Shell run,
                       \* or what the collaborator did with the queries of the
                       \* last Search run
    chat               \* the last _chat, WriteCode.run or summarize_content call:
                       \* what it was given and what came of it

callVars == <<json, status, old>>
planVars == <<heap, tasks, current_task_sequence, react_chat_id, plan_chat_id>>
loopVars == <<pc, calls, round_log, elaborations>>
judgeVars == <<response, verdict>>
shellVars == <<output, sanitized>>
sessionVars == <<cmd, sent, returned>>
dispatchVars == <<exec_action, exec_instruction, exec_code, exec_response>>
budgetVars == <<content_len, budget>>
receiveVars == <<recv, channel, chat>>

vars == <<heap, tasks, json, status, old, op, current_task_sequence, react_chat_id,
          plan_chat_id, pc, calls, round_log, elaborations, response, verdict, output, sanitized,
          cmd, sent, returned, exec_action, exec_instruction, exec_code,
          exec_response, content_len, budget, recv, channel, chat>>

---------------------------------------------------------------------------
(* Bounds of the model *)

\* longest old task list handed to merge
MaxOld == 2
\* longest task-spec list (new_tasks_json / tasks_json)
MaxNew == 2
\* plan() and update_plan() calls of one planner run
MaxCalls == 3
\* longest judgment response, in tokens
MaxResponse == 4
\* longest terminal output, in tokens
MaxOutput == 5

---------------------------------------------------------------------------
(* Small value sets the inputs are drawn from *)

Instructions == {"A", "B"}
Results == {"r1", "r2"}
Ids == {1, 2}
DepLists == {<<>>, <<1>>, <<2>>}
AllKeys == {"id", "dependent_task_ids", "instruction", "action"}

RECURSIVE SeqsUpTo(_, _)
SeqsUpTo(S, n) ==
    IF n = 0 THEN {<<>>}
    ELSE LET shorter == SeqsUpTo(S, n - 1)
         IN  shorter \cup {Append(s, x) : s \in {t \in shorter : Len(t) = n - 1}, x \in S}

SetMax(S) == CHOOSE x \in S : \A y \in S : y <= x
SetMin(S) == CHOOSE x \in S : \A y \in S : x <= y

\* the elements of a finite set of integers in ascending order
RECURSIVE Ascending(_)
Ascending(S) ==
    IF S = {} THEN <<>>
    ELSE LET m == SetMin(S) IN <<m>> \o Ascending(S \ {m})

---------------------------------------------------------------------------
(* Task objects and task specifications *)

\* Task(plan_id=..., sequence=..., action=..., instruction=..., dependencies=...):
\* the remaining fields take the defaults result "", is_finished and
\* is_success False.  plan_id is the same for every task of the single plan
\* modelled and is left out.
Task(sequence, action, instruction, dependencies) ==
    [sequence |-> sequence, action |-> action, instruction |-> instruction,
     dependencies |-> dependencies, result |-> "",
     is_finished |-> FALSE, is_success |-> FALSE]

\* A task spec is a JSON object: `keys` is the set of keys it has; the value
\* of an absent key is never read.
TaskSpec(id, deps, instruction, keys) ==
    [id |-> id, dependent_task_ids |-> deps, instruction |-> instruction,
     action |-> "Shell", keys |-> keys]

WellFormedSpecs ==
    {TaskSpec(i, d, ins, AllKeys) : i \in Ids, d \in DepLists, ins \in Instructions}

\* one spec per absent key
MalformedSpecs ==
    {TaskSpec(1, <<>>, "A", AllKeys \ {k}) : k \in AllKeys}

SpecLists == SeqsUpTo(WellFormedSpecs \cup MalformedSpecs, MaxNew)

HasKey(task_data, k) == k \in task_data.keys

\* an old task as a plan can hold it: pending, finished-failed or
\* finished-successful with a result
OldTaskKinds ==
    {[Task(0, "Shell", ins, <<>>) EXCEPT !.is_finished = st[1], !.is_success = st[2],
                                         !.result = st[3]] :
        ins \in Instructions,
        st \in {<<FALSE, FALSE, "">>, <<TRUE, FALSE, "r1">>,
                <<TRUE, TRUE, "r1">>, <<TRUE, TRUE, "r2">>}}

\* old task lists are numbered by position, each task depending on its
\* predecessor (so that clearing dependencies is observable)
OldHeaps ==
    {[k \in 1..Len(s) |-> [s[k] EXCEPT !.sequence = k - 1,
                                       !.dependencies = IF k = 1 THEN <<>> ELSE <<k - 2>>]] :
        s \in SeqsUpTo(OldTaskKinds, MaxOld)}

---------------------------------------------------------------------------
(* import_tasks_from_json *)

\* dependencies=[i for i, t in enumerate(tasks_json)
\*               if t['id'] in task_data['dependent_task_ids']]
ImportDependencies(tasks_json, task_data) ==
    Ascending({i - 1 : i \in {j \in 1..Len(tasks_json) :
        \E d \in 1..Len(task_data.dependent_task_ids) :
            task_data.dependent_task_ids[d] = tasks_json[j].id}})

\* Building the first Task reads task_data['action'], ['instruction'],
\* ['dependent_task_ids'] and t['id'] of every spec; subscripting an absent
\* key raises KeyError.
ImportRaises(tasks_json) ==
    \E i \in 1..Len(tasks_json) :
        \/ ~HasKey(tasks_json[i], "action")
        \/ ~HasKey(tasks_json[i], "instruction")
        \/ ~HasKey(tasks_json[i], "dependent_task_ids")
        \/ ~HasKey(tasks_json[i], "id")

import_tasks_from_json(tasks_json) ==
    IF ImportRaises(tasks_json)
    THEN [err |-> TRUE, heap |-> <<>>]
    ELSE [err |-> FALSE,
          heap |-> [i \in 1..Len(tasks_json) |->
                       Task(i - 1, tasks_json[i].action, tasks_json[i].instruction,
                            ImportDependencies(tasks_json, tasks_json[i]))]]

---------------------------------------------------------------------------
(* merge_tasks_from_json *)

\* a task that is finished, with whatever outcome
IsCompleted_FinishedOnly(h, o) == h[o].is_finished

IsCompleted(h, o) == h[o].is_finished /\ h[o].is_success

\* positions of old_tasks holding a finished and successful task
CompletedPositions(old_tasks, h) ==
    {i \in 1..Len(old_tasks) : IsCompleted(h, old_tasks[i])}

\* completed_tasks_map: a dict keyed by instruction; a later task with the
\* same instruction overwrites the earlier one
completed_tasks_map(old_tasks, h) ==
    [ins \in {h[old_tasks[i]].instruction : i \in CompletedPositions(old_tasks, h)} |->
        old_tasks[SetMax({i \in CompletedPositions(old_tasks, h) :
                              h[old_tasks[i]].instruction = ins})]]

\* the keys of completed_tasks_map in dict order: the order of first insertion
CompletedKeyOrder(old_tasks, h) ==
    LET first == {i \in CompletedPositions(old_tasks, h) :
                     \A j \in CompletedPositions(old_tasks, h) :
                         j < i => h[old_tasks[j]].instruction # h[old_tasks[i]].instruction}
        order == Ascending(first)
    IN  [k \in 1..Len(order) |-> h[old_tasks[order[k]]].instruction]

\* the inner scan `for task_data in new_tasks_json: if task_data['instruction']
\* == instruction: found = True; break`
ScanForInstruction(new_tasks_json, instruction) ==
    LET stops == {p \in 1..Len(new_tasks_json) :
                     \/ ~HasKey(new_tasks_json[p], "instruction")
                     \/ new_tasks_json[p].instruction = instruction}
    IN  IF stops = {} THEN "notfound"
        ELSE IF ~HasKey(new_tasks_json[SetMin(stops)], "instruction") THEN "KeyError"
        ELSE "found"

\* a carried-over task keeps its old dependencies
CarryOver_KeepsDependencies(acc, o) ==
    [acc EXCEPT !.heap[o].sequence = Len(acc.merged),
                !.merged = Append(acc.merged, o)]

\* completed_task.sequence = len(merged_tasks); completed_task.dependencies = [];
\* merged_tasks.append(completed_task)
CarryOver(acc, o) ==
    [acc EXCEPT !.heap[o].sequence = Len(acc.merged),
                !.heap[o].dependencies = <<>>,
                !.merged = Append(acc.merged, o)]

\* the first loop: completed tasks whose instruction no new spec repeats are
\* renumbered, lose their dependencies and are appended
RECURSIVE CarryOverLoop(_, _, _, _)
CarryOverLoop(keys, new_tasks_json, cmap, acc) ==
    IF keys = <<>> \/ acc.err THEN acc
    ELSE LET scan == ScanForInstruction(new_tasks_json, Head(keys))
             o == cmap[Head(keys)]
         IN  IF scan = "KeyError" THEN [acc EXCEPT !.err = TRUE]
             ELSE IF scan = "found"
                  THEN CarryOverLoop(Tail(keys), new_tasks_json, cmap, acc)
             ELSE CarryOverLoop(Tail(keys), new_tasks_json, cmap, CarryOver(acc, o))

\* new_task_id_to_idx: {task_data.get('id'): idx + len(merged_tasks)}; a later
\* spec with the same id overwrites the earlier one.  A spec without an id is
\* entered under None, which no dependent id equals.
new_task_id_to_idx(new_tasks_json, base) ==
    [d \in {new_tasks_json[i].id : i \in {j \in 1..Len(new_tasks_json) :
                                              HasKey(new_tasks_json[j], "id")}} |->
        base + SetMax({i \in 1..Len(new_tasks_json) :
                          HasKey(new_tasks_json[i], "id") /\ new_tasks_json[i].id = d}) - 1]

\* [new_task_id_to_idx[dep_id] for dep_id in task_data['dependent_task_ids']
\*  if dep_id in new_task_id_to_idx]
MergeDependencies(task_data, idmap) ==
    LET known == SelectSeq(task_data.dependent_task_ids, LAMBDA d : d \in DOMAIN idmap)
    IN  [k \in 1..Len(known) |-> idmap[known[k]]]

\* a matched task is taken up as new work: its flags are reset
MergeSpec_ReopensMatched(task_data, cmap, idmap, acc) ==
    IF ~HasKey(task_data, "instruction") THEN [acc EXCEPT !.err = TRUE]
    ELSE IF task_data.instruction \in DOMAIN cmap
    THEN LET o == cmap[task_data.instruction]
             renumbered == [acc EXCEPT !.heap[o].sequence = Len(acc.merged)]
         IN  IF ~HasKey(task_data, "dependent_task_ids")
             THEN [renumbered EXCEPT !.err = TRUE]
             ELSE [renumbered EXCEPT
                      !.heap[o].dependencies = MergeDependencies(task_data, idmap),
                      !.heap[o].is_finished = FALSE,
                      !.heap[o].is_success = FALSE,
                      !.merged = Append(acc.merged, o)]
    ELSE IF ~HasKey(task_data, "action") \/ ~HasKey(task_data, "dependent_task_ids")
    THEN [acc EXCEPT !.err = TRUE]
    ELSE [acc EXCEPT
             !.heap = Append(acc.heap,
                         Task(Len(acc.merged), task_data.action, task_data.instruction,
                              MergeDependencies(task_data, idmap))),
             !.merged = Append(acc.merged, Len(acc.heap) + 1)]

\* one iteration of the second loop
MergeSpec(task_data, cmap, idmap, acc) ==
    IF ~HasKey(task_data, "instruction") THEN [acc EXCEPT !.err = TRUE]
    ELSE IF task_data.instruction \in DOMAIN cmap
    THEN LET o == cmap[task_data.instruction]
             renumbered == [acc EXCEPT !.heap[o].sequence = Len(acc.merged)]
         IN  IF ~HasKey(task_data, "dependent_task_ids")
             THEN [renumbered EXCEPT !.err = TRUE]
             ELSE [renumbered EXCEPT
                      !.heap[o].dependencies = MergeDependencies(task_data, idmap),
                      !.merged = Append(acc.merged, o)]
    ELSE IF ~HasKey(task_data, "action") \/ ~HasKey(task_data, "dependent_task_ids")
    THEN [acc EXCEPT !.err = TRUE]
    ELSE [acc EXCEPT
             !.heap = Append(acc.heap,
                         Task(Len(acc.merged), task_data.action, task_data.instruction,
                              MergeDependencies(task_data, idmap))),
             !.merged = Append(acc.merged, Len(acc.heap) + 1)]

RECURSIVE SpecLoop(_, _, _, _, _)
SpecLoop(i, new_tasks_json, cmap, idmap, acc) ==
    IF i > Len(new_tasks_json) \/ acc.err THEN acc
    ELSE SpecLoop(i + 1, new_tasks_json, cmap, idmap,
                  MergeSpec(new_tasks_json[i], cmap, idmap, acc))

\* The result: err (a KeyError was raised), merged (the returned list, when
\* no error was raised) and heap (the objects as the call leaves them, also
\* when it raises half-way).
merge_tasks_from_json(new_tasks_json, old_tasks, h) ==
    LET cmap == completed_tasks_map(old_tasks, h)
        carried == CarryOverLoop(CompletedKeyOrder(old_tasks, h), new_tasks_json, cmap,
                                 [err |-> FALSE, merged |-> <<>>, heap |-> h])
    IN  IF carried.err THEN carried
        ELSE SpecLoop(1, new_tasks_json, cmap,
                      new_task_id_to_idx(new_tasks_json, Len(carried.merged)), carried)

---------------------------------------------------------------------------
(* Model-service responses, as token sequences *)

\* A response is a sequence of tokens: the words yes and no ("Yes" stands for
\* any other letter case), another word "w", a non-word separator " ", the
\* reasoning tags, and the rate-limit indicator "TPM" (a word).
WordTokens == {"yes", "Yes", "no", "w", "TPM"}
\* the marker _chat puts in front of an upstream error (chat.py, line 177)
ErrorMarker == "**ERROR**"
ResponseTokens == WordTokens \cup {" ", "<think>", "</think>", ErrorMarker}

IndexesOf(s, t) == {i \in 1..Len(s) : s[i] = t}

\* is_rate_limit_error: an indicator substring anywhere in the text
is_rate_limit_error(error_msg) == IndexesOf(error_msg, "TPM") # {}

\* re.sub(r'<think>.*?</think>', '', response, flags=IGNORECASE | DOTALL):
\* leftmost match first, each match running to the nearest closing tag
RECURSIVE StripThink(_)
StripThink(s) ==
    LET closes == IndexesOf(s, "</think>")
        starts == {a \in IndexesOf(s, "<think>") : \E c \in closes : c > a}
    IN  IF starts = {} THEN s
        ELSE LET a == SetMin(starts)
                 c == SetMin({x \in closes : x > a})
             IN  SubSeq(s, 1, a - 1) \o StripThink(SubSeq(s, c + 1, Len(s)))

\* cleaned.lower()
Lower(s) == [i \in 1..Len(s) |-> IF s[i] = "Yes" THEN "yes" ELSE s[i]]

\* re.findall(r'\b(yes|no)\b', text): the positions of yes/no with no word
\* character on either side
YesNoMatches(text) ==
    {i \in 1..Len(text) :
        /\ text[i] \in {"yes", "no"}
        /\ i > 1 => text[i - 1] \notin WordTokens
        /\ i < Len(text) => text[i + 1] \notin WordTokens}

\* the first match decides instead of the last
parse_success_flag_FirstMatch(resp) ==
    IF resp = <<>> THEN "None"
    ELSE LET text == Lower(StripThink(resp))
             matches == YesNoMatches(text)
         IN  IF matches # {}
             THEN (IF text[SetMin(matches)] = "yes" THEN "True" ELSE "False")
             ELSE "None"

\* _parse_success_flag: "True", "False" or "None"
parse_success_flag(resp) ==
    IF resp = <<>> THEN "None"
    ELSE LET text == Lower(StripThink(resp))
             matches == YesNoMatches(text)
         IN  IF matches # {}
             THEN (IF text[SetMax(matches)] = "yes" THEN "True" ELSE "False")
             ELSE "None"

\* update_plan, lines 83-87: no clear token counts as failure
SuccessFlag(check_success) == parse_success_flag(check_success) = "True"

---------------------------------------------------------------------------
(* Context budget, on transcript classes *)

CHARS_PER_TOKEN == 4
MAX_TOKENS_SAFE == 4000

\* ContentSummarizer.estimate_tokens, on len(text)
estimate_tokens(length) == length \div CHARS_PER_TOKEN

\* the limit itself counts as over the limit
needs_summarization_of_length_AtLimit(length) ==
    estimate_tokens(length) >= MAX_TOKENS_SAFE

\* ContentSummarizer.needs_summarization, on len(text)
needs_summarization_of_length(length) ==
    estimate_tokens(length) > MAX_TOKENS_SAFE

\* A transcript is empty, a page of text under the safe token limit ("page")
\* or over the limit ("long").
Transcripts == {"", "page", "long"}

\* len(text) for these: nothing, 600 characters, and the shortest
\* text over the limit; the model's summary is taken to be 200 characters,
\* and _fallback_summarize gives at least the previews of lines 135-137:
\* 17 + 300 + 3 characters, a newline, and 16 + 3 + 300 characters
TranscriptLength(text) ==
    CASE text = "" -> 0
      [] text = "long" -> CHARS_PER_TOKEN * (MAX_TOKENS_SAFE + 1)
      [] text = "page" -> 600
      [] text = "summary" -> 200
      [] text = "fallback" -> 640
      [] OTHER -> CHARS_PER_TOKEN

needs_summarization(text) == needs_summarization_of_length(TranscriptLength(text))

\* summarize_content: the text itself when short, else the model's summary,
\* or the fallback extract when the model call fails; both are short
summarize_content(content, llm_ok) ==
    IF ~needs_summarization(content) THEN content
    ELSE IF llm_ok THEN "summary" ELSE "fallback"

---------------------------------------------------------------------------
(* Plan *)

None == 0

\* Plan.current_task: the first task of the list that is not finished
current_task(ts, h) ==
    LET pending == {k \in 1..Len(ts) : ~h[ts[k]].is_finished}
    IN  IF pending = {} THEN None ELSE ts[SetMin(pending)]

\* the two flags are written to each other's field
update_task_status_FlagsSwapped(h, ts, task_sequence, is_finished, is_success, result) ==
    LET hits == {k \in 1..Len(ts) : h[ts[k]].sequence = task_sequence}
    IN  IF hits = {} THEN [heap |-> h, task |-> 0]
        ELSE LET o == ts[SetMin(hits)]
             IN  [heap |-> [h EXCEPT ![o].is_finished = is_success,
                                     ![o].is_success = is_finished,
                                     ![o].result = IF result # "" THEN result ELSE @],
                  task |-> o]

\* Planner.update_task_status: the first task of the plan with that sequence
\* number is marked; `task` is the object found, or None
update_task_status(h, ts, task_sequence, is_finished, is_success, result) ==
    LET hits == {k \in 1..Len(ts) : h[ts[k]].sequence = task_sequence}
    IN  IF hits = {} THEN [heap |-> h, task |-> None]
        ELSE LET o == ts[SetMin(hits)]
             IN  [heap |-> [h EXCEPT ![o].is_finished = is_finished,
                                     ![o].is_success = is_success,
                                     ![o].result = IF result # "" THEN result ELSE @],
                  task |-> o]

\* A conversation handle is kept as its length and the number of resets it
\* went through.  reset_conversation_with_context names the new conversation
\* f"{conversation_id}_reset_{int(time.time())}": 7 characters and the 10
\* digits of the time.
ResetSuffixLen == 17
\* f"{new_conversation_id}_plan"
PlanSuffixLen == 5
\* handles start as 32-character hexadecimal ids
InitialHandleLen == 32

\* How a _chat call ends: the model answers, the client hands back an
\* error-marked text (OpenAIChat.chat, except Exception), or the client
\* raises (the retries are used up) and _chat itself returns the marker.
ChatOutcomes == {"answered", "error_text", "raised"}

\* _chat, lines 164-168: query and response are added to the conversation
\* once the client has returned; a raise skips to the except clause
chat_stores_message(outcome) == outcome # "raised"

reset_conversation_with_context(conversation_id) ==
    [len |-> conversation_id.len + ResetSuffixLen, resets |-> conversation_id.resets + 1]

\* The plan as one value: p.heap, p.tasks, p.cts (current_task_sequence),
\* p.react, p.plan (the two handles)

\* the characters of str(n)
RECURSIVE Digits(_)
Digits(n) == IF n < 10 THEN 1 ELSE 1 + Digits(n \div 10)

\* the length a conversation id may have (the conversation_id column)
MaxIdLen == 32
\* hashlib.md5(base_id.encode()).hexdigest()[:20]
HashLen == 20

\* the id is always base_id + "_" + task_suffix
task_conversation_id_NoHash(base_id, seq) ==
    [kind |-> "direct", base |-> base_id, seq |-> seq,
     len |-> base_id.len + 1 + (1 + Digits(seq))]

\* next_task_details, lines 139-148: the conversation a task is elaborated
\* in, kept as how it is built (from the base id itself or from its hash),
\* the base id, the task sequence, and its length
task_conversation_id(base_id, seq) ==
    LET task_suffix == 1 + Digits(seq)
    IN  IF base_id.len + task_suffix + 1 > MaxIdLen
        THEN [kind |-> "hash", base |-> base_id, seq |-> seq,
              len |-> HashLen + 1 + task_suffix]
        ELSE [kind |-> "direct", base |-> base_id, seq |-> seq,
              len |-> base_id.len + 1 + task_suffix]

\* Planner.next_task_details: points current_task_sequence at the current
\* task; `given` tells whether a task was handed out (None is returned
\* otherwise), and then conversation_id and instruction are those of the
\* elaboration request
next_task_details(p) ==
    LET cur == current_task(p.tasks, p.heap)
    IN  IF cur = None THEN [plan |-> p, given |-> FALSE]
        ELSE [plan |-> [p EXCEPT !.cts = p.heap[cur].sequence], given |-> TRUE,
              conversation_id |-> task_conversation_id(p.react, p.heap[cur].sequence),
              instruction |-> p.heap[cur].instruction]

\* summary[:500]
SummaryExcerpt == 500

\* _handle_rate_limit_error, line 230: the characters of the summary that
\* f"Task completed. Summary: {summary[:500]}..." quotes
summary_excerpt(summary) ==
    IF TranscriptLength(summary) > SummaryExcerpt THEN SummaryExcerpt
    ELSE TranscriptLength(summary)

\* _handle_rate_limit_error wraps its steps in try/except Exception.  A step
\* may raise before the plan's handles are assigned (lines 190-215, "early"),
\* or after them and before the status update (lines 218-224, "late").
Faults == {"none", "early", "late"}

\* line 199: tasks[current_task_sequence] raises IndexError when the list is
\* not empty and holds no such position; otherwise a step raises when it is
\* at fault
RecoveryRaises(p, fault) ==
    \/ p.tasks # <<>> /\ p.cts + 1 > Len(p.tasks)
    \/ fault # "none"

\* Planner._handle_rate_limit_error up to its final next_task_details call.
\* An exception is caught by the handler, leaving the plan as the steps
\* before it left it.
handle_rate_limit_error(p, result, llm_ok, fault) ==
    LET summary == summarize_content(result, llm_ok)
        new_id == reset_conversation_with_context(p.react)
        renamed == [p EXCEPT
                       !.react = new_id,
                       !.plan = [len |-> new_id.len + PlanSuffixLen,
                                 resets |-> new_id.resets]]
    IN  IF (p.tasks # <<>> /\ p.cts + 1 > Len(p.tasks)) \/ fault = "early" THEN p
        ELSE IF fault = "late" THEN renamed
        ELSE [renamed EXCEPT
                 !.heap = IF p.tasks = <<>> THEN @
                          ELSE update_task_status(p.heap, p.tasks, p.cts, TRUE, TRUE,
                                                  "recovered").heap]

\* What WritePlan.update / WritePlan.run hand back after _extract_json_block:
\* nothing (empty or error-marked response, or no JSON in it), text that
\* json.loads rejects, JSON text carrying a rate-limit indicator, or a list
\* of task specs.
RevisionKinds == {"none", "unparseable", "rate_limit", "list"}

PlannerSpecs ==
    {TaskSpec(1, <<>>, "A", AllKeys), TaskSpec(2, <<1>>, "B", AllKeys),
     TaskSpec(1, <<>>, "A", AllKeys \ {"dependent_task_ids"})}

PlannerSpecLists == SeqsUpTo(PlannerSpecs, MaxNew)

Revisions ==
    {[kind |-> k, specs |-> <<>>] : k \in RevisionKinds \ {"list"}}
        \cup {[kind |-> "list", specs |-> l] : l \in PlannerSpecLists}

PlannerJudgments == {<<"yes">>, <<"no">>, <<"TPM">>}

\* f"{conversation_id}_summarize", f"{react_chat_id}_emergency",
\* f"{plan_chat_id}_update" and f"{plan_chat_id}_retry"
SummarizeSuffixLen == 10
EmergencySuffixLen == 10
UpdateSuffixLen == 7
RetrySuffixLen == 6

\* the lengths of the conversation handles one update_plan call on plan p
\* passes to _chat before its final next_task_details call; r is what
\* update_plan(p, ...) gave and result the transcript as line 65 left it
update_plan_handles(p, transcript, result, r) ==
    {p.react.len}
        \cup (IF needs_summarization(transcript)
              THEN {p.react.len + SummarizeSuffixLen} ELSE {})
        \cup (IF r.revisions >= 1 THEN {p.plan.len} ELSE {})
        \cup (IF r.revisions >= 1 /\ needs_summarization(result)
              THEN {p.plan.len + UpdateSuffixLen + SummarizeSuffixLen} ELSE {})
        \cup (IF r.revisions = 2 THEN {p.plan.len + RetrySuffixLen} ELSE {})
        \cup (IF r.recoveries = 1 /\ needs_summarization(result)
              THEN {p.react.len + EmergencySuffixLen + SummarizeSuffixLen} ELSE {})
        \cup (IF r.plan.react # p.react THEN {r.plan.react.len} ELSE {})

\* the retry is itself retried
revision_requests_RetriesAgain(first_rate_limited) ==
    IF first_rate_limited THEN 3 ELSE 1

\* WritePlan.update, lines 72-99: the revision is requested once, and once
\* more with shortened content when the first response is a rate-limit
\* signal; the second response is taken as it is
revision_requests(first_rate_limited) ==
    IF first_rate_limited THEN 2 ELSE 1

\* merge_tasks on a parsed revision: on a KeyError the plan keeps its list,
\* and the objects keep what the merge had already written to them
merge_tasks(p, specs) ==
    LET r == merge_tasks_from_json(specs, p.tasks, p.heap)
    IN  [p EXCEPT !.heap = r.heap, !.tasks = IF r.err THEN @ ELSE r.merged]

\* Planner.update_plan up to its final next_task_details call; `path` names
\* the branch taken, `judgments`, `revisions` and `recoveries` count the
\* judgment requests (line 71), the revision requests of WritePlan.update
\* (line 97) and the entries into _handle_rate_limit_error (lines 81, 108)
update_plan(p, transcript, llm_ok, check_success, revision, fault, first_rate_limited) ==
    LET result == summarize_content(transcript, llm_ok)
        flag == SuccessFlag(check_success)
        marked == update_task_status(p.heap, p.tasks, p.cts, TRUE, flag, result)
        \* WritePlan.update summarizes task_result.result when it is too long
        task_result == IF marked.task = None THEN marked.heap
                       ELSE [marked.heap EXCEPT ![marked.task].result =
                                 summarize_content(@, llm_ok)]
        judged == [p EXCEPT !.heap = task_result]
    IN  IF check_success # <<>> /\ is_rate_limit_error(check_success)
        THEN [plan |-> handle_rate_limit_error(p, result, llm_ok, fault),
              path |-> "recovered_judgment",
              judgments |-> 1, revisions |-> 0, recoveries |-> 1,
              recovery |-> IF RecoveryRaises(p, fault) THEN "failed" ELSE "done"]
        ELSE IF marked.task = None
        \* WritePlan.update reads task_result.result: AttributeError on None
        THEN [plan |-> p, path |-> "raised", recovery |-> "none",
              judgments |-> 1, revisions |-> 0, recoveries |-> 0]
        ELSE IF revision.kind = "rate_limit"
        THEN [plan |-> handle_rate_limit_error(judged, result, llm_ok, fault),
              path |-> "recovered_revision",
              judgments |-> 1, revisions |-> revision_requests(first_rate_limited),
              recoveries |-> 1,
              recovery |-> IF RecoveryRaises(judged, fault) THEN "failed" ELSE "done"]
        ELSE IF revision.kind = "none"
        THEN [plan |-> judged, path |-> "no_revision", recovery |-> "none",
              judgments |-> 1, revisions |-> revision_requests(first_rate_limited),
              recoveries |-> 0]
        ELSE IF revision.kind = "unparseable"
        THEN [plan |-> judged, path |-> "unparseable", recovery |-> "none",
              judgments |-> 1, revisions |-> revision_requests(first_rate_limited),
              recoveries |-> 0]
        ELSE [plan |-> merge_tasks(judged, revision.specs),
              path |-> IF merge_tasks_from_json(revision.specs, judged.tasks,
                                                judged.heap).err
                       THEN "merge_failed" ELSE "merged",
              recovery |-> "none",
              judgments |-> 1, revisions |-> revision_requests(first_rate_limited),
              recoveries |-> 0]

---------------------------------------------------------------------------
(* sanitize_ansi_concealed_payload, on token sequences *)

\* Terminal output is a sequence of tokens: the conceal sequence ESC[8m, the
\* reset sequence ESC[0m, other text "x", and the text of the warning itself.
Conceal == "ESC[8m"
Reset == "ESC[0m"
Warning == "**CAUTION: DANGEROUS ACTION**: PAYLOAD INJECTED. DON'T TRUST THIS SERVICE."
OutputTokens == {Conceal, Reset, "x", Warning}

\* a greedy pattern: one match from the first conceal sequence to the last
\* reset sequence
sanitize_Greedy(text) ==
    LET resets == IndexesOf(text, Reset)
        starts == {a \in IndexesOf(text, Conceal) : \E c \in resets : c > a}
    IN  IF starts = {} THEN text
        ELSE SubSeq(text, 1, SetMin(starts) - 1) \o <<Warning>>
                 \o SubSeq(text, SetMax(resets) + 1, Len(text))

\* a substitution that stops after the first match (count=1)
sanitize_FirstSpanOnly(text) ==
    LET resets == IndexesOf(text, Reset)
        starts == {a \in IndexesOf(text, Conceal) : \E c \in resets : c > a}
    IN  IF starts = {} THEN text
        ELSE LET a == SetMin(starts)
                 c == SetMin({x \in resets : x > a})
             IN  SubSeq(text, 1, a - 1) \o <<Warning>>
                     \o SubSeq(text, c + 1, Len(text))

\* re.sub(r'\x1b\[8m.*?\x1b\[0m|\033\[8m.*?\033\[0m', warning, output,
\* flags=re.DOTALL): both alternatives are the same pattern; leftmost match
\* first, each match running to the nearest reset
RECURSIVE sanitize_ansi_concealed_payload(_)
sanitize_ansi_concealed_payload(text) ==
    LET resets == IndexesOf(text, Reset)
        starts == {a \in IndexesOf(text, Conceal) : \E c \in resets : c > a}
    IN  IF starts = {} THEN text
        ELSE LET a == SetMin(starts)
                 c == SetMin({x \in resets : x > a})
             IN  SubSeq(text, 1, a - 1) \o <<Warning>>
                     \o sanitize_ansi_concealed_payload(SubSeq(text, c + 1, Len(text)))

---------------------------------------------------------------------------
(* Text as the session and the dispatcher see it: a sequence of tokens,    *)
(* "\n" ending a line and " " a blank                                      *)

Whitespace == {" ", "\n"}

\* str.strip()
RECURSIVE Strip(_)
Strip(text) ==
    IF text = <<>> THEN <<>>
    ELSE IF Head(text) \in Whitespace THEN Strip(Tail(text))
    ELSE IF text[Len(text)] \in Whitespace THEN Strip(SubSeq(text, 1, Len(text) - 1))
    ELSE text

\* str.split(): the maximal runs of non-blank tokens, in order
RECURSIVE Split(_)
Split(text) ==
    IF text = <<>> THEN <<>>
    ELSE IF Head(text) \in Whitespace THEN Split(Tail(text))
    ELSE LET blanks == {k \in 1..Len(text) : text[k] \in Whitespace}
             n == IF blanks = {} THEN Len(text) ELSE SetMin(blanks) - 1
         IN  <<SubSeq(text, 1, n)>> \o Split(SubSeq(text, n + 1, Len(text)))

\* str.split('\n'): the lines, the last one possibly empty
RECURSIVE SplitLines(_)
SplitLines(text) ==
    LET breaks == IndexesOf(text, "\n")
    IN  IF breaks = {} THEN <<text>>
        ELSE <<SubSeq(text, 1, SetMin(breaks) - 1)>>
                 \o SplitLines(SubSeq(text, SetMin(breaks) + 1, Len(text)))

\* "\n".join(lines)
RECURSIVE JoinLines(_)
JoinLines(lines) ==
    IF lines = <<>> THEN <<>>
    ELSE IF Len(lines) = 1 THEN lines[1]
    ELSE lines[1] \o <<"\n">> \o JoinLines(Tail(lines))

\* text.strip().split('\n')[-1]
LastLine(text) == SplitLines(Strip(text))[Len(SplitLines(Strip(text)))]

Contains(text, tokens) == \E k \in 1..Len(text) : text[k] \in tokens

\* str.lower() on the tokens that have upper-case letters
LowerText(t) ==
    CASE t = "[Y/n]" -> "[y/n]"
      [] t = "[Y/n/q]" -> "[y/n/q]"
      [] t = "Loading" -> "loading"
      [] OTHER -> t

---------------------------------------------------------------------------
(* The remote shell session *)

\* A command is a sequence of pieces; pieces with no blank between them form
\* one word ("apt" "-get" is the word apt-get, "ls" "apt" the word lsapt).
\* No command of the model holds "gobuster".
CommandPieces == {"apt", "-get", "ls", "dirb", "msfconsole", " "}

MaxCommand == 3

Commands == SeqsUpTo(CommandPieces, MaxCommand)

FORBIDDEN_COMMANDS == {<<"apt">>, <<"apt", "-get">>}

Refusal == "Command not allowed: network tunneling tools are restricted"

\* a check of the first word only
check_forbidden_commands_FirstWord(c) ==
    IF Split(c) # <<>> /\ Split(c)[1] \in FORBIDDEN_COMMANDS THEN Refusal ELSE "None"

\* RemoteShell._check_forbidden_commands: the refusal or Python's None
check_forbidden_commands(c) ==
    IF \E k \in 1..Len(Split(c)) : Split(c)[k] \in FORBIDDEN_COMMANDS
    THEN Refusal ELSE "None"

\* what goes over the channel: shell.send(text)
Send(kind, text) == [kind |-> kind, text |-> text]
Interrupt == Send("interrupt", <<"\\x03">>)
Yes == Send("yes", <<"yes", "\n">>)

\* What the channel gives for one command.  One read (receive_data) ends
\* with the text captured and, if it ended on the wall-clock timeout, with an
\* interrupt sent.
ShellOutputs ==
    {<<>>,
     <<"x", "\n", "[bash]$">>,
     <<Conceal, "x", Reset, "\n", "[bash]$">>,
     <<Conceal, "x">>,
     <<Reset, "\n", "[bash]$">>,
     <<"x", "[Y/n]">>,
     <<"x", "[Y/n/q]">>,
     <<"Loading", "\n", "DOWNLOADED: 1 - FOUND: 1", "\n", "[bash]$">>}

Reads == [data : ShellOutputs, timed_out : BOOLEAN]

\* SSHOutputHandler.receive_data, by its result
receive_data(read) ==
    [data |-> read.data, sent |-> IF read.timed_out THEN <<Interrupt>> ELSE <<>>]

ConfirmationPatterns == {"[y/n]", "[Y/n/q]", "yes/no/[fingerprint]", "(yes/no)"}

\* a line that holds one of the phrases of the list, in either case
HasConfirmationPhrase(line) ==
    \E k \in 1..Len(line) :
        LowerText(line[k]) \in {LowerText(ph) : ph \in ConfirmationPatterns}

\* RemoteShell._handle_normal_execution: ''.join(output) and what was sent
handle_normal_execution(first, second) ==
    LET r1 == receive_data(first)
        last_line == LastLine(r1.data)
        r2 == receive_data(second)
    IN  IF \E k \in 1..Len(last_line) : LowerText(last_line[k]) \in ConfirmationPatterns
        THEN [out |-> r1.data \o r2.data, sent |-> r1.sent \o <<Yes>> \o r2.sent]
        ELSE [out |-> r1.data, sent |-> r1.sent]

\* re.sub(r'\x1b\[[0-9;]*[mGKH]', '', output)
RECURSIVE StripAnsi(_)
StripAnsi(text) ==
    IF text = <<>> THEN <<>>
    ELSE (IF Head(text) \in {Conceal, Reset} THEN <<>> ELSE <<Head(text)>>)
             \o StripAnsi(Tail(text))

\* the lines of text that satisfy keep, in order
RECURSIVE FilterLines(_, _)
FilterLines(lines, dropped) ==
    IF lines = <<>> THEN <<>>
    ELSE (IF \E k \in 1..Len(lines[1]) : LowerText(lines[1][k]) \in dropped
          THEN <<>> ELSE <<lines[1]>>) \o FilterLines(Tail(lines), dropped)

\* clean_dirb_output: f"{summary}\n{urls}\n{stats}"; of the model's tokens
\* only the DOWNLOADED/FOUND line matches one of its patterns
clean_dirb_output(text) ==
    LET stats == [k \in 1..Cardinality(IndexesOf(StripAnsi(text), "DOWNLOADED: 1 - FOUND: 1"))
                     |-> <<"DOWNLOADED: 1 - FOUND: 1">>]
    IN  <<"\n", "\n">> \o JoinLines(stats)

\* str.splitlines(): as split('\n') without the empty line after a final "\n"
splitlines(text) ==
    IF text = <<>> THEN <<>>
    ELSE IF text[Len(text)] = "\n" THEN SplitLines(SubSeq(text, 1, Len(text) - 1))
    ELSE SplitLines(text)

\* clean_msfconsole_output: "\n".join(cleaned)
clean_msfconsole_output(text) ==
    JoinLines(FilterLines(splitlines(StripAnsi(text)), {"loading"}))

\* RemoteShell.execute_cmd
execute_cmd(c, first, second) ==
    IF check_forbidden_commands(c) # "None"
    THEN [out |-> <<check_forbidden_commands(c)>>, sent |-> <<>>]
    ELSE LET h == handle_normal_execution(first, second)
             final_output == sanitize_ansi_concealed_payload(h.out)
         IN  [out |-> IF Contains(c, {"dirb"}) /\ ~Contains(c, {"gobuster"})
                         THEN clean_dirb_output(final_output)
                      ELSE IF Contains(c, {"msfconsole"})
                         THEN clean_msfconsole_output(final_output)
                      ELSE final_output,
              sent |-> <<Send("cmd", c \o <<"\n">>)>> \o h.sent]

---------------------------------------------------------------------------
(* SSHOutputHandler.receive_data, poll by poll *)

\* Lines the channel may show last: text, the three kinds of shell prompt, a
\* lone dollar sign, and questions of sudo, a password, and two
\* confirmations
ConfigQuestion ==
    "What do you want to do about modified configuration file sshd_config?"
ReceiveLines ==
    {"x", "[bash]$", "root@kali:~#", "msf6 >", "$", "[sudo] password for kali:",
     "Password:", "continue? [Y/n]", "Remove? [Y/n/q]", ConfigQuestion}

\* What recv() gives at one poll: the non-empty lines of the chunk
Chunks == {<<l>> : l \in ReceiveLines} \cup {<<ConfigQuestion, "x">>}

\* longest wall-clock timeout and longest time between two polls, in ticks
\* of the 0.1 s the loop sleeps
MaxTimeout == 3
MaxStep == 2

\* receive_data, lines 66-99: one look at last_line.  The loop is left
\* ("break"), the retry counter goes up ("retry") or neither ("none").
ExamineLastLine(last_line, config_seen) ==
    \* '[bash]$' in it; root@\w+:.*[#$]\s*$; [#$%>]\s*$ and more than one character
    IF last_line \in {"[bash]$", "root@kali:~#", "msf6 >"} THEN "break"
    \* 'sudo' in last_line
    ELSE IF last_line = "[sudo] password for kali:" THEN "retry"
    \* last character ?, $ or #
    ELSE IF last_line \in {"$", ConfigQuestion} THEN "retry"
    \* last character ':'
    ELSE IF last_line = "Password:" THEN "retry"
    \* a confirmation pattern in last_line.lower(); '[Y/n/q]' is in no
    \* lower-case text
    ELSE IF last_line = "continue? [Y/n]" THEN "retry"
    \* the configuration question anywhere in out
    ELSE IF config_seen THEN "break"
    ELSE "none"

\* the timeout is looked at only when there are lines
receive_poll_TimeoutAmongLines(st, ready, chunk, now) ==
    LET got == IF ready
               THEN [st EXCEPT !.last = chunk[Len(chunk)],
                               !.config = @ \/ (\E k \in 1..Len(chunk) :
                                                   chunk[k] = ConfigQuestion)]
               ELSE st
        look == IF got.last = "" THEN "none" ELSE ExamineLastLine(got.last, got.config)
        counted == [got EXCEPT !.retries = IF look = "retry" THEN @ + 1 ELSE @,
                               !.elapsed = IF now > st.timeout THEN st.timeout + 1 ELSE now,
                               !.polls = 1]
    IN  IF look = "break" THEN [counted EXCEPT !.pc = "returned", !.exit = "prompt"]
        ELSE IF got.last # "" /\ counted.retries >= 3
        THEN [counted EXCEPT !.pc = "returned", !.exit = "retries"]
        ELSE IF got.last # "" /\ now > st.timeout
        THEN [counted EXCEPT !.pc = "returned", !.exit = "timeout",
                             !.sent = Append(@, Interrupt)]
        ELSE counted

\* the interrupt goes out on every exit that did not see a prompt
receive_poll_InterruptsOnRetries(st, ready, chunk, now) ==
    LET got == IF ready
               THEN [st EXCEPT !.last = chunk[Len(chunk)],
                               !.config = @ \/ (\E k \in 1..Len(chunk) :
                                                   chunk[k] = ConfigQuestion)]
               ELSE st
        look == IF got.last = "" THEN "none" ELSE ExamineLastLine(got.last, got.config)
        counted == [got EXCEPT !.retries = IF look = "retry" THEN @ + 1 ELSE @,
                               !.elapsed = IF now > st.timeout THEN st.timeout + 1 ELSE now,
                               !.polls = 1]
    IN  IF look = "break" THEN [counted EXCEPT !.pc = "returned", !.exit = "prompt"]
        ELSE IF got.last # "" /\ counted.retries >= 3
        THEN [counted EXCEPT !.pc = "returned", !.exit = "retries",
                             !.sent = Append(@, Interrupt)]
        ELSE IF now > st.timeout
        THEN [counted EXCEPT !.pc = "returned", !.exit = "timeout",
                             !.sent = Append(@, Interrupt)]
        ELSE counted

\* One iteration of the loop of receive_data (lines 54-111) in state st:
\* ready is shell.recv_ready(), chunk what recv() gives, now the ticks since
\* start_time when the timeout is looked at.  Of out the last non-empty line
\* and whether it holds the configuration question are kept; time past the
\* timeout is kept as one tick past it.
receive_poll(st, ready, chunk, now) ==
    LET got == IF ready
               THEN [st EXCEPT !.last = chunk[Len(chunk)],
                               !.config = @ \/ (\E k \in 1..Len(chunk) :
                                                   chunk[k] = ConfigQuestion)]
               ELSE st
        look == IF got.last = "" THEN "none" ELSE ExamineLastLine(got.last, got.config)
        counted == [got EXCEPT !.retries = IF look = "retry" THEN @ + 1 ELSE @,
                               !.elapsed = IF now > st.timeout THEN st.timeout + 1 ELSE now,
                               !.polls = 1]
    IN  IF look = "break" THEN [counted EXCEPT !.pc = "returned", !.exit = "prompt"]
        ELSE IF got.last # "" /\ counted.retries >= 3
        THEN [counted EXCEPT !.pc = "returned", !.exit = "retries"]
        ELSE IF now > st.timeout
        THEN [counted EXCEPT !.pc = "returned", !.exit = "timeout",
                             !.sent = Append(@, Interrupt)]
        ELSE counted

---------------------------------------------------------------------------
(* The action dispatcher (actions/execute_task.py): directive extraction *)

\* The instruction text is a sequence of tokens: reasoning tags in two letter
\* cases, the directive tags, the line break and another word "w".
InstructionTokens ==
    {"<think>", "<THINK>", "</think>", "<execute>", "</execute>",
     "<search>", "</search>", "\n", "w"}

MaxInstruction == 5

ThinkOpen == {"<think>", "<THINK>"}
ThinkClose == {"</think>"}

IndexesIn(s, ts) == {i \in 1..Len(s) : s[i] \in ts}

\* re.sub(r'<think>.*?</think>', '', instruction, flags=DOTALL | IGNORECASE)
RECURSIVE StripThinkIgnoreCase(_)
StripThinkIgnoreCase(s) ==
    LET closes == IndexesIn(s, ThinkClose)
        starts == {a \in IndexesIn(s, ThinkOpen) : \E c \in closes : c > a}
    IN  IF starts = {} THEN s
        ELSE LET a == SetMin(starts)
                 c == SetMin({x \in closes : x > a})
             IN  SubSeq(s, 1, a - 1) \o StripThinkIgnoreCase(SubSeq(s, c + 1, Len(s)))

\* re.findall(rf'<{tag}>\s*(.*?)\s*</{tag}>', text, re.DOTALL): leftmost
\* opening tag first, each match running to the nearest closing tag; the
\* group is what stands between, without the blanks at its ends
RECURSIVE FindTagged(_, _)
FindTagged(text, tag) ==
    LET closes == IndexesOf(text, "</" \o tag \o ">")
        starts == {a \in IndexesOf(text, "<" \o tag \o ">") : \E c \in closes : c > a}
    IN  IF starts = {} THEN <<>>
        ELSE LET a == SetMin(starts)
                 c == SetMin({x \in closes : x > a})
             IN  <<Strip(SubSeq(text, a + 1, c - 1))>>
                     \o FindTagged(SubSeq(text, c + 1, Len(text)), tag)

\* directives are extracted from the instruction as it stands, reasoning
\* sections included
parse_response_KeepsReasoning(act, instr) ==
    LET tag == IF act = "Search" THEN "search" ELSE "execute"
        initial_matches == FindTagged(instr, tag)
        matches == IF initial_matches = <<>> /\ tag = "search"
                   THEN FindTagged(instr, "execute") ELSE initial_matches
    IN  [k \in 1..Len(matches) |-> Strip(matches[k])]

\* ExecuteTask.parse_response
parse_response(act, instr) ==
    LET cleaned_instruction == StripThinkIgnoreCase(instr)
        tag == IF act = "Search" THEN "search" ELSE "execute"
        initial_matches == FindTagged(cleaned_instruction, tag)
        matches == IF initial_matches = <<>> /\ tag = "search"
                   THEN FindTagged(cleaned_instruction, "execute") ELSE initial_matches
    IN  [k \in 1..Len(matches) |-> Strip(matches[k])]

---------------------------------------------------------------------------
(* The action dispatcher: a Shell run *)

\* What the session does on one execute_cmd call of a run: the two reads of
\* the call, or closed when the channel fails and the call raises.
Exchange(first, second) == [first |-> first, second |-> second, closed |-> FALSE]

Quiet == Exchange([data |-> <<"x", "\n", "[bash]$">>, timed_out |-> FALSE],
                  [data |-> <<>>, timed_out |-> FALSE])

Answer(text) == Exchange([data |-> text, timed_out |-> FALSE],
                         [data |-> <<>>, timed_out |-> FALSE])

Exchanges ==
    {Quiet,
     Answer(<<Conceal, "x", Reset, "\n", "[bash]$">>),
     Answer(<<Conceal, "x">>),
     Answer(<<"x", Reset, "\n", "[bash]$">>),
     Answer(<<"x", "\n", "password:">>),
     Answer(<<"[sudo] password for", "x", ":">>),
     Answer(<<"command not found", "\n", "smb:">>),
     Answer(<<"Action:", "command not found", "\n", "smb:">>),
     [Quiet EXCEPT !.closed = TRUE]}

\* the exchanges of a run, in order; when they are used up the session
\* answers Quiet
MaxExchanges == 3

PASSWORD_PROMPTS == {"password:", "Password for[sudo] password for"}
SMB_PROMPTS == {"command not found", "?Invalid command."}
SubShellPrompts == {"smb:", "ftp>"}

Advisory == "Before sending a remote command you need to set-up an SSH connection."

\* The state of a run in progress: the transcript so far, what was sent, the
\* exchanges still to come, the last output, and whether a call has raised.
RunState(feed) ==
    [result |-> <<>>, sent |-> <<>>, feed |-> feed, out |-> <<>>,
     skip_next |-> FALSE, failed |-> FALSE, log |-> <<>>]

\* an execute_cmd call with its output, and an interrupt, as the run's log
\* keeps them
Called(c, out) == [kind |-> "call", c |-> c, out |-> out]
Interrupted == [kind |-> "interrupt", c |-> <<>>, out |-> <<>>]

\* output = shell.execute_cmd(c)
Call(st, c) ==
    IF st.failed THEN st
    ELSE LET x == IF st.feed = <<>> THEN Quiet ELSE Head(st.feed)
             rest == IF st.feed = <<>> THEN <<>> ELSE Tail(st.feed)
         IN  IF x.closed THEN [st EXCEPT !.failed = TRUE, !.feed = rest]
             ELSE LET r == execute_cmd(c, x.first, x.second)
                  IN  [st EXCEPT !.sent = @ \o r.sent, !.feed = rest, !.out = r.out,
                                 !.log = Append(@, Called(c, r.out))]

\* result += text
Add(st, text) == IF st.failed THEN st ELSE [st EXCEPT !.result = @ \o text]

\* result += output + '\n', for the output of the call just made
AddOutput(st) == Add(st, st.out \o <<"\n">>)

\* shell.shell.send('\x03')
SendInterrupt(st) ==
    IF st.failed THEN st
    ELSE [st EXCEPT !.sent = @ \o <<Interrupt>>, !.log = Append(@, Interrupted)]

Entry(c) == <<"Action:">> \o c \o <<"\n", "Observation: ">>

\* result = result.rsplit('Action:', 1)[0] + f'Action:{c}\nObservation: '
Restart(st, c) ==
    IF st.failed THEN st
    ELSE LET marks == IndexesOf(st.result, "Action:")
             kept == IF marks = {} THEN st.result
                     ELSE SubSeq(st.result, 1, SetMax(marks) - 1)
         IN  [st EXCEPT !.result = kept \o Entry(c)]

EndsAtPassword(text) == Contains(LastLine(text), PASSWORD_PROMPTS)

\* the sub-shell rejected the command: lines 175-176
SubShellRejected(text) ==
    LET out_line == SplitLines(Strip(text))
    IN  /\ Contains(out_line[Len(out_line)], SubShellPrompts)
        /\ Len(out_line) > 1
        /\ Contains(out_line[Len(out_line) - 1], SMB_PROMPTS)

\* lines 164-171: the directive sent as password met a password prompt again
RetryPassword(st, c) ==
    IF st.failed \/ ~EndsAtPassword(st.out) THEN st
    ELSE AddOutput(Call(Restart(SendInterrupt(st), c), c))

\* lines 158-173, after the output out of directive i
AfterPassword(st, directives, i, out) ==
    IF st.failed \/ ~EndsAtPassword(out) THEN st
    ELSE IF i + 1 <= Len(directives)
    THEN RetryPassword(
             [AddOutput(Call(Add(st, Entry(directives[i + 1])), directives[i + 1]))
                 EXCEPT !.skip_next = TRUE],
             directives[i + 1])
    ELSE SendInterrupt(st)

\* lines 175-181
AfterSubShell(st, c, out) ==
    IF st.failed \/ ~SubShellRejected(out) THEN st
    ELSE AddOutput(Call(Restart(Call(st, <<"exit">>), c), c))

\* lines 151-181 for directive i, given the state after its execute_cmd
AfterCall(st, directives, i) ==
    AfterSubShell(AfterPassword(AddOutput(st), directives, i, st.out),
                  directives[i], st.out)

\* the loop of lines 145-181 from directive i on
RECURSIVE ShellLoop(_, _, _)
ShellLoop(st, directives, i) ==
    IF st.failed \/ i > Len(directives) THEN st
    ELSE IF st.skip_next
    THEN ShellLoop([st EXCEPT !.skip_next = FALSE], directives, i + 1)
    ELSE ShellLoop(AfterCall(Call(Add(st, Entry(directives[i])), directives[i]),
                             directives, i),
                   directives, i + 1)

\* ExecuteTask.shell_operation, the session obtained: the transcript, the
\* directive list and what went over the channel
shell_operation(instr, feed) ==
    LET thought == parse_response("Shell", instr)
        st == ShellLoop(RunState(feed), thought, 1)
        result == IF st.failed THEN <<Advisory>> ELSE st.result
    IN  [response |-> sanitize_ansi_concealed_payload(result),
         code |-> thought, sent |-> st.sent,
         run |-> [calls |-> st.log, transcript |-> st.result, failed |-> st.failed]]

---------------------------------------------------------------------------
(* The action dispatcher: a Search run, and run() *)

\* command_delimiters, the backquote left out
CommandDelimiters == {";", "&&", "|", "$(", ">>", "<<"}

\* the command_keywords that are pieces of the model's texts
CommandKeywords == {"ls", "apt", "dirb"}

LowerAll(text) == [k \in 1..Len(text) |-> LowerText(text[k])]

\* a test of the delimiters alone
is_command_like_DelimitersOnly(query) ==
    LET lowered == LowerAll(Strip(query))
    IN  IF lowered = <<>> THEN FALSE
        ELSE Contains(lowered, CommandDelimiters)

\* ExecuteTask._is_command_like
is_command_like(query) ==
    LET lowered == LowerAll(Strip(query))
    IN  IF lowered = <<>> THEN FALSE
        ELSE \/ Contains(lowered, CommandDelimiters)
             \/ Split(lowered)[1] \in {<<w>> : w \in CommandKeywords}

\* What the search collaborator does with one query: it returns a summary,
\* it fails inside (search_security_intelligence catches that and returns a
\* "Search failed" text), or the call raises.
SearchOutcomes ==
    {[kind |-> "summary", text |-> <<"x">>],
     [kind |-> "summary", text |-> <<Conceal, "x", Reset>>],
     [kind |-> "failed", text |-> <<"Search failed: e">>],
     [kind |-> "raised", text |-> <<>>]}

MaxQueries == 2

\* search_security_intelligence, for an outcome that does not raise
search_security_intelligence(outcome) == outcome.text

\* lines 101-115 from candidate i on; st.code is executable_queries and
\* st.feed the outcomes still to come (a summary "x" when used up)
RECURSIVE SearchLoop(_, _, _)
SearchLoop(st, search_queries, i) ==
    IF st.failed \/ i > Len(search_queries) THEN st
    ELSE LET query == Strip(search_queries[i])
         IN  IF query = <<>> THEN SearchLoop(st, search_queries, i + 1)
             ELSE IF is_command_like(query)
             THEN SearchLoop(
                      [st EXCEPT !.result = @ \o <<"Rejected query", ToString(i),
                                                   ": looks like a shell command -> ">>
                                                  \o query \o <<"\n">>],
                      search_queries, i + 1)
             ELSE LET outcome == IF st.feed = <<>> THEN [kind |-> "summary", text |-> <<"x">>]
                                 ELSE Head(st.feed)
                      rest == IF st.feed = <<>> THEN <<>> ELSE Tail(st.feed)
                      n == Len(st.code) + 1
                  IN  IF outcome.kind = "raised"
                      THEN [st EXCEPT !.failed = TRUE, !.feed = rest,
                                      !.sent = @ \o <<Send("query", query)>>,
                                      !.log = Append(@, outcome.kind)]
                      ELSE SearchLoop(
                               [st EXCEPT
                                   !.code = @ \o <<query>>,
                                   !.sent = @ \o <<Send("query", query)>>,
                                   !.feed = rest,
                                   !.log = Append(@, outcome.kind),
                                   !.result = @ \o <<"Search Query", ToString(n), ": ">>
                                                \o query \o <<"\n", "Search Results:", "\n">>
                                                \o search_security_intelligence(outcome)
                                                \o <<"\n", "\n">>],
                               search_queries, i + 1)

\* ExecuteTask.search_operation: the transcript, the directive list (self.code,
\* left as it was when no query is parsed) and the queries sent
search_operation(instr, code_before, feed) ==
    LET search_queries == parse_response("Search", instr)
        st == SearchLoop([result |-> <<>>, sent |-> <<>>, feed |-> feed,
                          code |-> <<>>, failed |-> FALSE, log |-> <<>>],
                         search_queries, 1)
    IN  IF search_queries = <<>>
        THEN [response |-> <<"No search queries provided.">>, code |-> code_before,
              sent |-> <<>>, run |-> <<>>]
        ELSE IF st.failed
        THEN [response |-> <<"Search operation failed: e">>, code |-> <<>>, sent |-> st.sent,
              run |-> st.log]
        ELSE [response |-> st.result, code |-> st.code, sent |-> st.sent, run |-> st.log]

Modes == {"Auto", "SemiAuto", "Manual"}
ActionKinds == {"Shell", "Search", "Other"}

\* ExecuteTask.run, lines 68-81: which operation handles the task
Branch(mode, act) ==
    IF mode = "SemiAuto"
    THEN (IF act = "Shell" THEN "shell" ELSE IF act = "Search" THEN "search" ELSE "prompt")
    ELSE IF mode = "Manual" THEN "prompt"
    ELSE (IF act = "Search" THEN "search" ELSE "shell")

\* what the operator types at the prompt
ManualEntries == {<<"x">>, <<Conceal, "x", Reset>>}

\* the instructions of the runs
DispatchInstructions ==
    {<<>>,
     <<"<execute>", "ls", "</execute>">>,
     <<"<execute>", "ls", "</execute>", "<execute>", "w", "</execute>">>,
     <<"<execute>", "ls", "</execute>", "<execute>", "w", "</execute>",
       "<execute>", "id", "</execute>">>,
     <<"<execute>", "ls", " ", "apt", "</execute>">>,
     <<"<think>", "<execute>", "ls", "</execute>", "</think>", "<execute>", "dirb", "</execute>">>,
     <<"<execute>", "msfconsole", "</execute>">>,
     <<"<search>", "w", "</search>">>,
     <<"<search>", "ls", " ", "w", "</search>", "<search>", "w", "</search>">>,
     <<"<search>", "w", ";", "</search>", "<search>", "</search>">>}

---------------------------------------------------------------------------
(* The model service: _chat and two of its callers *)

\* What a _chat call meets: whether a conversation handle is given, the
\* configured model type, what the conversation store does (it serves, or
\* it raises when the conversation or the message is added), what the
\* client's chat gives (a text, an empty text, Python's None, a text
\* starting with the error marker, or an exception after the retries), and
\* the summary flag.
ClientReplies == {"text", "empty", "None", "error_text", "raised"}

ChatCalls ==
    [handle : {"none", "given"},
     llm_model : {"OPENAI", "OLLAMA", "other"},
     store : {"serves", "conversation_raises", "message_raises"},
     client : ClientReplies,
     summary : BOOLEAN]

\* what _chat returns: a pair (response_text, conversation_id) or a text
Pair(text) == [shape |-> "pair", text |-> text]
Text(text) == [shape |-> "text", text |-> text]

\* _chat (chat.py:99-177) from the conversation's set-up on
chat_call(call) ==
    \* add_conversation_to_db raises: the except clause of line 175
    IF call.store = "conversation_raises" THEN Text("error_text")
    \* lines 156-161
    ELSE IF call.llm_model = "other" THEN Text("Unsupported model type")
    \* client.chat raises: the except clause
    ELSE IF call.client = "raised" THEN Text("error_text")
    \* add_message_to_db raises: the except clause
    ELSE IF call.summary /\ call.store = "message_raises" THEN Text("error_text")
    \* lines 170-173
    ELSE IF call.handle = "given" THEN Text(call.client)
    ELSE Pair(call.client)

\* WriteCode.run, lines 29-42: response, _ = _chat(..., conversation_id=None,
\* summary=False); a text of other than two characters cannot be taken apart
write_code_run(call) ==
    LET r == chat_call([call EXCEPT !.handle = "none", !.summary = FALSE])
    IN  IF r.shape = "pair" THEN [raised |-> "no", instruction |-> r.text]
        ELSE [raised |-> "ValueError", instruction |-> "None"]

\* content[:300] and content[-300:], and the length above which the ending
\* is given
PreviewLen == 300
EndingThreshold == 600

Highlights == <<"VULNERABILITIES", "OPEN PORTS", "SERVICES", "ERRORS">>

\* A text handed to summarize_content: its length and the kinds of key
\* information extract_key_information finds in it
SummarizedLengths == {CHARS_PER_TOKEN * MAX_TOKENS_SAFE,
                      CHARS_PER_TOKEN * (MAX_TOKENS_SAFE + 1),
                      2 * CHARS_PER_TOKEN * (MAX_TOKENS_SAFE + 1)}

Contents == [len : SummarizedLengths, found : SUBSET {1, 2, 3, 4}]

\* what the _chat call of summarize_content gives: a text of _chat, a text
\* with the error marker after a blank, or an exception
SummarizerReplies ==
    {"text", "empty", "None", "error_text", "Unsupported model type",
     "blank_error_text", "raised"}

\* ContentSummarizer._fallback_summarize: the parts joined, and how many
\* characters of the head and of the tail of the content they quote
fallback_summarize(content) ==
    [kind |-> "fallback",
     parts |-> LET labels == SelectSeq(<<1, 2, 3, 4>>, LAMBDA k : k \in content.found)
               IN  [k \in 1..Len(labels) |-> Highlights[labels[k]]]
                      \o <<"CONTENT PREVIEW">>
                      \o (IF content.len > EndingThreshold
                          THEN <<"CONTENT ENDING">> ELSE <<>>),
     preview |-> IF content.len < PreviewLen THEN content.len ELSE PreviewLen,
     ending |-> IF content.len > EndingThreshold THEN PreviewLen ELSE 0]

\* the reply is returned whenever it is not empty
summarize_content_of_TrustsReply(content, reply) ==
    IF ~needs_summarization_of_length(content.len) THEN [kind |-> "content"]
    ELSE IF reply \in {"raised", "empty", "None"} THEN fallback_summarize(content)
    ELSE [kind |-> "reply", text |-> reply]

\* ContentSummarizer.summarize_content, for every reply of its _chat call
summarize_content_of(content, reply) ==
    IF ~needs_summarization_of_length(content.len) THEN [kind |-> "content"]
    \* the except clause of line 113
    ELSE IF reply = "raised" THEN fallback_summarize(content)
    \* not summary or summary.startswith("**ERROR**")
    ELSE IF reply \in {"empty", "None", "error_text"} THEN fallback_summarize(content)
    ELSE [kind |-> "reply", text |-> reply]

---------------------------------------------------------------------------
(* The task list as Python shows it: each position dereferenced *)

Deref(ts, h) == [k \in 1..Len(ts) |-> h[ts[k]]]

\* the objects a list reaches, renamed in order of first occurrence
Compact(ts, h) ==
    LET first == {k \in 1..Len(ts) : \A j \in 1..(k - 1) : ts[j] # ts[k]}
        order == Ascending(first)
        newId(o) == CHOOSE n \in 1..Len(order) : ts[order[n]] = o
    IN  [tasks |-> [k \in 1..Len(ts) |-> newId(ts[k])],
         heap |-> [n \in 1..Len(order) |-> h[ts[order[n]]]]]

---------------------------------------------------------------------------
(* Parts of the state a specification does not use stay as they start *)

NoCall == json = <<>> /\ status = "init" /\ old = [heap |-> <<>>, tasks |-> <<>>]

InitialHandle == [len |-> InitialHandleLen, resets |-> 0]

NoRound ==
    [path |-> "none", current_finished |-> TRUE, newly_finished |-> 0,
     list_kept |-> TRUE, numbering_kept |-> TRUE, flag_kept |-> TRUE,
     handles_kept |-> TRUE, given |-> FALSE, recovery |-> "none", again |-> FALSE,
     judgments |-> 0, revisions |-> 0, recoveries |-> 0, longest |-> 0, rerun |-> FALSE,
     renewed |-> FALSE, seeded |-> FALSE, current_success |-> FALSE, excerpt |-> 0]

FreshHandles ==
    /\ current_task_sequence = 0
    /\ react_chat_id = InitialHandle
    /\ plan_chat_id = InitialHandle

NoLoop == pc = "idle" /\ calls = 0 /\ round_log = NoRound /\ elaborations = {}

NoJudgment == response = <<>> /\ verdict = "none"

NoOutput == output = <<>> /\ sanitized = <<>>

NoSession == cmd = <<>> /\ sent = <<>> /\ returned = <<>>

NoCheck == [other |-> 0, estimate |-> 0, needs |-> FALSE, needs_other |-> FALSE]

NoBudget == content_len = 0 /\ budget = NoCheck

\* receive_data at its first line: nothing captured, no retries, no time
\* passed, nothing sent
ReceiveStart(timeout) ==
    [pc |-> "polling", timeout |-> timeout, last |-> "", config |-> FALSE,
     retries |-> 0, elapsed |-> 0, polls |-> 0, exit |-> "none", sent |-> <<>>]

NoChat == [input |-> <<>>, result |-> <<>>]

NoReceive ==
    recv = [ReceiveStart(0) EXCEPT !.pc = "idle"] /\ channel = <<>> /\ chat = NoChat

NoDispatch ==
    /\ exec_action = "Shell" /\ exec_instruction = <<>>
    /\ exec_code = <<>> /\ exec_response = <<>>

---------------------------------------------------------------------------
(* Merge and import as calls on given inputs *)

MergeInit ==
    /\ heap \in OldHeaps
    /\ tasks = [k \in 1..Len(heap) |-> k]
    /\ json = <<>>
    /\ status = "init"
    /\ old = [heap |-> <<>>, tasks |-> <<>>]
    /\ op = "none"
    /\ NoBudget /\ NoReceive
    /\ FreshHandles /\ NoLoop /\ NoJudgment /\ NoOutput /\ NoSession /\ NoDispatch

\* merge_tasks_from_json(plan_id, new_tasks_json, old_tasks) on the given list
CallMerge(new_tasks_json) ==
    LET r == merge_tasks_from_json(new_tasks_json, tasks, heap)
    IN  /\ old' = [heap |-> heap, tasks |-> tasks]
        /\ json' = new_tasks_json
        /\ status' = IF r.err THEN "KeyError" ELSE "ok"
        /\ heap' = r.heap
        /\ tasks' = IF r.err THEN tasks ELSE r.merged

MergeFirst ==
    /\ status = "init"
    /\ \E new_tasks_json \in SpecLists : CallMerge(new_tasks_json)
    /\ op' = "merge"
    /\ UNCHANGED <<budgetVars, receiveVars>>
    /\ UNCHANGED <<current_task_sequence, react_chat_id, plan_chat_id>>
    /\ UNCHANGED <<loopVars, judgeVars, shellVars, sessionVars, dispatchVars>>

\* the merged list is merged once more, with an empty spec list
MergeEmptyAgain ==
    /\ status = "ok"
    /\ op \in {"merge", "remerge"}
    /\ CallMerge(<<>>)
    /\ op' = IF op = "merge" THEN "remerge" ELSE "remerge2"
    /\ UNCHANGED <<budgetVars, receiveVars>>
    /\ UNCHANGED <<current_task_sequence, react_chat_id, plan_chat_id>>
    /\ UNCHANGED <<loopVars, judgeVars, shellVars, sessionVars, dispatchVars>>

MergeNext == MergeFirst \/ MergeEmptyAgain

SpecMerge == MergeInit /\ [][MergeNext]_vars

ImportInit ==
    /\ heap = <<>>
    /\ tasks = <<>>
    /\ json \in SpecLists
    /\ status = "init"
    /\ old = [heap |-> <<>>, tasks |-> <<>>]
    /\ op = "none"
    /\ NoBudget /\ NoReceive
    /\ FreshHandles /\ NoLoop /\ NoJudgment /\ NoOutput /\ NoSession /\ NoDispatch

\* import_tasks_from_json(plan_id, tasks_json)
CallImport ==
    /\ status = "init"
    /\ LET r == import_tasks_from_json(json)
       IN  /\ status' = IF r.err THEN "KeyError" ELSE "ok"
           /\ heap' = r.heap
           /\ tasks' = [k \in 1..Len(r.heap) |-> k]
    /\ op' = "import"
    /\ UNCHANGED <<budgetVars, receiveVars>>
    /\ UNCHANGED <<json, old, current_task_sequence, react_chat_id, plan_chat_id>>
    /\ UNCHANGED <<loopVars, judgeVars, shellVars, sessionVars, dispatchVars>>

ImportNext == CallImport

SpecImport == ImportInit /\ [][ImportNext]_vars

---------------------------------------------------------------------------
(* The planner loop: plan(), then update_plan() after each executed task *)

ThePlan ==
    [heap |-> heap, tasks |-> tasks, cts |-> current_task_sequence,
     react |-> react_chat_id, plan |-> plan_chat_id]

\* the plan after a call: only the objects its list reaches are kept
StorePlan(p) ==
    \E c \in {Compact(p.tasks, p.heap)} :
        /\ heap' = c.heap
        /\ tasks' = c.tasks
        /\ current_task_sequence' = p.cts
        /\ react_chat_id' = p.react
        /\ plan_chat_id' = p.plan

\* a Planner is built on a new, empty plan or on a plan that already holds a
\* pending task
PlannerInit ==
    /\ \/ heap = <<>> /\ tasks = <<>>
       \/ heap = <<Task(0, "Shell", "A", <<>>)>> /\ tasks = <<1>>
    /\ FreshHandles /\ NoLoop /\ NoCall /\ NoJudgment /\ NoOutput /\ NoSession /\ NoDispatch
    /\ op = "none"
    /\ NoBudget /\ NoReceive

\* the elaboration request of a next_task_details call, if it made one
Elaboration(r) ==
    IF r.given THEN {[conversation_id |-> r.conversation_id, instruction |-> r.instruction]}
    ELSE {}

\* a plan() that empties the task list before it parses the response
plan_ClearsListFirst(p, generated) ==
    IF current_task(p.tasks, p.heap) # None THEN next_task_details(p)
    ELSE IF generated.kind # "list"
    THEN [plan |-> [p EXCEPT !.tasks = <<>>], given |-> FALSE]
    ELSE LET r == import_tasks_from_json(generated.specs)
         IN  IF r.err THEN [plan |-> [p EXCEPT !.tasks = <<>>], given |-> FALSE]
             ELSE next_task_details([p EXCEPT !.heap = r.heap,
                                              !.tasks = [k \in 1..Len(r.heap) |-> k]])

\* Planner.plan with WritePlan.run's outcome generated
plan(p, generated) ==
    IF current_task(p.tasks, p.heap) # None THEN next_task_details(p)
    ELSE IF generated.kind # "list" THEN [plan |-> p, given |-> FALSE]
    ELSE LET r == import_tasks_from_json(generated.specs)
         IN  IF r.err THEN [plan |-> p, given |-> FALSE]
             ELSE next_task_details([p EXCEPT !.heap = r.heap,
                                              !.tasks = [k \in 1..Len(r.heap) |-> k]])

\* how a plan() call went: the plan had a current task ("resumed"), or the
\* generated response was empty or error-marked ("no_response"), not JSON
\* ("unparseable"), a list with a spec lacking a field ("malformed"), or a
\* list that was imported ("imported")
PlanOutcome(p, generated) ==
    IF current_task(p.tasks, p.heap) # None THEN "resumed"
    ELSE IF generated.kind = "none" THEN "no_response"
    ELSE IF generated.kind = "unparseable" THEN "unparseable"
    ELSE IF import_tasks_from_json(generated.specs).err THEN "malformed"
    ELSE "imported"

Plan ==
    /\ pc = "idle"
    /\ calls < MaxCalls
    /\ \E generated \in {g \in Revisions : g.kind # "rate_limit"} :
          \E r \in {plan(ThePlan, generated)} :
              /\ StorePlan(r.plan)
              /\ pc' = IF r.given THEN "executing" ELSE "idle"
              /\ elaborations' = elaborations \cup Elaboration(r)
              /\ round_log' =
                    [NoRound EXCEPT
                        !.path = PlanOutcome(ThePlan, generated),
                        !.list_kept = (Deref(r.plan.tasks, r.plan.heap) = Deref(tasks, heap)),
                        !.handles_kept = (r.plan.react = react_chat_id
                                          /\ r.plan.plan = plan_chat_id),
                        !.given = r.given,
                        \* WritePlan.run is given plan_chat_id
                        !.longest =
                            SetMax({r.plan.react.len, r.plan.plan.len}
                                   \cup {e.conversation_id.len : e \in Elaboration(r)})]
    /\ calls' = calls + 1
    /\ op' = "plan"
    /\ UNCHANGED <<budgetVars, receiveVars>>
    /\ UNCHANGED <<callVars, judgeVars, shellVars, sessionVars, dispatchVars>>

UpdatePlan ==
    /\ pc = "executing"
    /\ calls < MaxCalls
    /\ \E transcript \in Transcripts, llm_ok \in BOOLEAN,
          check_success \in PlannerJudgments, revision \in Revisions,
          fault \in Faults, reset \in ChatOutcomes, first_rate_limited \in BOOLEAN :
          /\ llm_ok \/ needs_summarization(transcript)
          \* a fault is one of the rate-limit handler
          /\ (fault = "none" /\ reset = "answered")
                \/ is_rate_limit_error(check_success)
                \/ revision.kind = "rate_limit"
          \* the reset is reached when no step before it raised
          /\ reset = "answered" \/ fault # "early"
          \* no revision is requested after a rate-limited judgment
          /\ ~is_rate_limit_error(check_success)
                \/ (~first_rate_limited /\ revision.kind = "none")
          /\ \E was_current \in {current_task(tasks, heap)},
                r \in {update_plan(ThePlan, transcript, llm_ok, check_success, revision,
                                  fault, first_rate_limited)} :
              \E nxt \in {next_task_details(r.plan)} :
                 /\ StorePlan(nxt.plan)
                 /\ pc' = IF nxt.given THEN "executing" ELSE "idle"
                 /\ elaborations' = elaborations \cup Elaboration(nxt)
                 /\ round_log' =
                       [path |-> r.path,
                        current_finished |-> r.plan.heap[was_current].is_finished,
                        newly_finished |->
                            Cardinality({o \in 1..Len(heap) :
                                ~heap[o].is_finished /\ r.plan.heap[o].is_finished}),
                        \* against the list as the status update left it
                        list_kept |-> r.plan.tasks = tasks,
                        numbering_kept |->
                            \A o \in 1..Len(heap) :
                                /\ r.plan.heap[o].sequence = heap[o].sequence
                                /\ r.plan.heap[o].dependencies = heap[o].dependencies,
                        \* the task that was current carries the parsed flag
                        flag_kept |->
                            /\ r.plan.heap[was_current].is_finished
                            /\ r.plan.heap[was_current].is_success
                                  = SuccessFlag(check_success),
                        handles_kept |-> (r.plan.react = react_chat_id
                                          /\ r.plan.plan = plan_chat_id),
                        given |-> nxt.given,
                        recovery |-> r.recovery,
                        \* the task handed out was finished and successful
                        \* when the call began
                        rerun |-> /\ nxt.given
                                  /\ \E cur \in {current_task(r.plan.tasks, r.plan.heap)} :
                                        cur <= Len(heap) /\ IsCompleted(heap, cur),
                        \* the longest handle passed to _chat or stored
                        longest |->
                            SetMax(update_plan_handles(ThePlan, transcript,
                                       summarize_content(transcript, llm_ok), r)
                                   \cup {nxt.plan.react.len, nxt.plan.plan.len}
                                   \cup {e.conversation_id.len : e \in Elaboration(nxt)}),
                        judgments |-> r.judgments,
                        revisions |-> r.revisions,
                        recoveries |-> r.recoveries,
                        \* the task conversation handle is another one
                        current_success |-> r.plan.heap[was_current].is_success,
                        \* the characters of the summary the recovery result quotes
                        excerpt |-> IF r.recovery # "done" THEN 0
                                    ELSE summary_excerpt(
                                             summarize_content(
                                                 summarize_content(transcript, llm_ok),
                                                 llm_ok)),
                        renewed |-> r.plan.react # react_chat_id,
                        \* the conversation reset opened holds the restart message
                        seeded |-> r.recovery = "done" /\ chat_stores_message(reset),
                        \* the task handed out is the task that was current
                        again |-> nxt.given
                                  /\ current_task(r.plan.tasks, r.plan.heap) = was_current]
                 /\ response' = check_success
                 /\ verdict' = IF is_rate_limit_error(check_success) THEN "rate_limit"
                               ELSE IF SuccessFlag(check_success) THEN "success"
                               ELSE "failed"
    /\ calls' = calls + 1
    /\ op' = "update_plan"
    /\ UNCHANGED <<budgetVars, receiveVars>>
    /\ UNCHANGED <<callVars, shellVars, sessionVars, dispatchVars>>

PlannerNext == Plan \/ UpdatePlan

SpecPlanner == PlannerInit /\ [][PlannerNext]_vars

---------------------------------------------------------------------------
(* One receive_data call, for every behaviour of the channel *)

ReceiveInit ==
    /\ heap = <<>> /\ tasks = <<>>
    /\ FreshHandles /\ NoLoop /\ NoCall /\ NoJudgment /\ NoOutput /\ NoSession /\ NoDispatch
    /\ NoBudget
    /\ recv \in {ReceiveStart(t) : t \in 1..MaxTimeout}
    /\ channel = <<>> /\ chat = NoChat
    /\ op = "none"

\* one iteration: the channel may or may not have data, and since the last
\* look at the clock at least the 0.1 s of time.sleep have passed (no time
\* need have passed at the first look)
ReceivePoll ==
    /\ recv.pc = "polling"
    /\ \E ready \in BOOLEAN, chunk \in Chunks,
          dt \in (IF recv.polls = 0 THEN 0 ELSE 1)..MaxStep :
          /\ ready \/ chunk = <<"x">>
          /\ recv' = receive_poll(recv, ready, chunk, recv.elapsed + dt)
    /\ op' = "receive_data"
    /\ UNCHANGED <<planVars, loopVars, callVars, judgeVars, shellVars, sessionVars,
                   dispatchVars, budgetVars, channel, chat>>

ReceiveNext == ReceivePoll

\* the thread running receive_data keeps running
SpecReceive == ReceiveInit /\ [][ReceiveNext]_vars /\ WF_vars(ReceivePoll)

---------------------------------------------------------------------------
(* Calls of the model service, of task code generation and of the summarizer *)

ChatInit ==
    /\ heap = <<>> /\ tasks = <<>>
    /\ FreshHandles /\ NoLoop /\ NoCall /\ NoJudgment /\ NoOutput /\ NoSession /\ NoDispatch
    /\ NoBudget /\ NoReceive
    /\ op = "none"

\* one _chat call
Chat ==
    /\ op = "none"
    /\ \E call \in ChatCalls : chat' = [input |-> call, result |-> chat_call(call)]
    /\ op' = "_chat"
    /\ UNCHANGED <<planVars, loopVars, callVars, judgeVars, shellVars, sessionVars,
                   dispatchVars, budgetVars, recv, channel>>

\* WriteCode.run up to the ExecuteTask it builds
WriteCodeRun ==
    /\ op = "none"
    /\ \E call \in ChatCalls :
          /\ call.handle = "none" /\ ~call.summary
          /\ chat' = [input |-> call, result |-> write_code_run(call)]
    /\ op' = "write_code"
    /\ UNCHANGED <<planVars, loopVars, callVars, judgeVars, shellVars, sessionVars,
                   dispatchVars, budgetVars, recv, channel>>

\* one summarize_content call
SummarizeContent ==
    /\ op = "none"
    /\ \E content \in Contents, reply \in SummarizerReplies :
          chat' = [input |-> [content |-> content, reply |-> reply],
                   result |-> summarize_content_of(content, reply)]
    /\ op' = "summarize_content"
    /\ UNCHANGED <<planVars, loopVars, callVars, judgeVars, shellVars, sessionVars,
                   dispatchVars, budgetVars, recv, channel>>

ChatNext == Chat \/ WriteCodeRun \/ SummarizeContent

SpecChat == ChatInit /\ [][ChatNext]_vars

---------------------------------------------------------------------------
(* The conversation a task is elaborated in, for every base id and sequence *)

\* longest base id: a 32-character id that went through one reset
MaxBaseLen == 49

\* task sequences: list positions at the ends of each number of digits
SequenceNumbers ==
    {0, 9, 10, 99, 100, 999, 1000, 99999, 100000, 999999999, 1000000000, 2147483647}

HandleInit ==
    /\ current_task_sequence = 0
    /\ react_chat_id \in [len : 1..MaxBaseLen, resets : {0}]
    /\ plan_chat_id = InitialHandle
    /\ \E seq \in SequenceNumbers : heap = <<Task(seq, "Shell", "A", <<>>)>>
    /\ tasks = <<1>>
    /\ NoLoop /\ NoCall /\ NoJudgment /\ NoOutput /\ NoSession /\ NoDispatch
    /\ op = "none"
    /\ NoBudget /\ NoReceive

NextTaskDetails ==
    /\ op = "none"
    /\ \E r \in {next_task_details(ThePlan)} :
          /\ StorePlan(r.plan)
          /\ elaborations' = elaborations \cup Elaboration(r)
          /\ pc' = IF r.given THEN "executing" ELSE "idle"
    /\ op' = "next_task_details"
    /\ UNCHANGED <<budgetVars, receiveVars>>
    /\ UNCHANGED <<calls, round_log, callVars, judgeVars, shellVars, sessionVars, dispatchVars>>

HandleNext == NextTaskDetails

SpecHandle == HandleInit /\ [][HandleNext]_vars

---------------------------------------------------------------------------
(* The context budget check, on texts of two lengths *)

\* how far around the limit, its half and its double the lengths go
Window == 8

Around(n) == {m \in (n - Window)..(n + Window) : m >= 0}

\* len(text): near 0, near the limit of 16000 characters, its half and its
\* double
ContentLengths ==
    LET limit == CHARS_PER_TOKEN * MAX_TOKENS_SAFE
    IN  Around(0) \cup Around(limit \div 2) \cup Around(limit) \cup Around(2 * limit)

BudgetInit ==
    /\ heap = <<>> /\ tasks = <<>>
    /\ FreshHandles /\ NoLoop /\ NoCall /\ NoJudgment /\ NoOutput /\ NoSession /\ NoDispatch
    /\ content_len \in ContentLengths
    /\ budget = NoCheck
    /\ NoReceive
    /\ op = "none"

\* needs_summarization on a text of content_len characters and on another
\* text at least as long
NeedsSummarization ==
    /\ op = "none"
    /\ \E other \in ContentLengths \cup {2 * content_len} :
          /\ other >= content_len
          /\ budget' = [other |-> other,
                        estimate |-> estimate_tokens(content_len),
                        needs |-> needs_summarization_of_length(content_len),
                        needs_other |-> needs_summarization_of_length(other)]
    /\ op' = "needs_summarization"
    /\ UNCHANGED <<content_len, planVars, loopVars, callVars, judgeVars, shellVars,
                   sessionVars, dispatchVars, receiveVars>>

BudgetNext == NeedsSummarization

SpecBudget == BudgetInit /\ [][BudgetNext]_vars

---------------------------------------------------------------------------
(* The success judgment of update_plan, on every response *)

JudgeInit ==
    /\ heap = <<Task(0, "Shell", "A", <<>>)>>
    /\ tasks = <<1>>
    /\ FreshHandles /\ NoCall /\ NoOutput /\ NoSession /\ NoDispatch
    /\ pc = "executing" /\ calls = 0 /\ round_log = NoRound /\ elaborations = {}
    /\ response \in SeqsUpTo(ResponseTokens, MaxResponse)
    /\ verdict = "none"
    /\ op = "none"
    /\ NoBudget /\ NoReceive

\* update_plan, lines 79-94: a rate-limit signal goes to recovery; any other
\* response is parsed and the current task marked finished with the flag
JudgeTask ==
    /\ op = "none"
    /\ IF response # <<>> /\ is_rate_limit_error(response)
       THEN /\ verdict' = "rate_limit"
            /\ heap' = heap
       ELSE /\ heap' = update_task_status(heap, tasks, current_task_sequence, TRUE,
                                          SuccessFlag(response), "out").heap
            /\ verdict' = IF heap'[1].is_success THEN "success" ELSE "failed"
    /\ op' = "judge"
    /\ UNCHANGED <<budgetVars, receiveVars>>
    /\ UNCHANGED <<tasks, current_task_sequence, react_chat_id, plan_chat_id, response>>
    /\ UNCHANGED <<loopVars, callVars, shellVars, sessionVars, dispatchVars>>

JudgeNext == JudgeTask

SpecJudge == JudgeInit /\ [][JudgeNext]_vars

---------------------------------------------------------------------------
(* The sanitizer, on every output *)

SanitizeInit ==
    /\ heap = <<>> /\ tasks = <<>>
    /\ FreshHandles /\ NoLoop /\ NoCall /\ NoJudgment /\ NoSession /\ NoDispatch
    /\ output \in SeqsUpTo(OutputTokens, MaxOutput)
    /\ sanitized = <<>>
    /\ op = "none"
    /\ NoBudget /\ NoReceive

Sanitize ==
    /\ op = "none"
    /\ sanitized' = sanitize_ansi_concealed_payload(output)
    /\ op' = "sanitize"
    /\ UNCHANGED <<budgetVars, receiveVars>>
    /\ UNCHANGED <<output, planVars, loopVars, callVars, judgeVars, sessionVars, dispatchVars>>

\* the sanitizer applied to a text it already sanitized, as shell_operation
\* does to the transcript it assembles from execute_cmd's sanitized outputs
SanitizeAgain ==
    /\ op = "sanitize"
    /\ sanitized' = sanitize_ansi_concealed_payload(sanitized)
    /\ op' = "resanitize"
    /\ UNCHANGED <<budgetVars, receiveVars>>
    /\ UNCHANGED <<output, planVars, loopVars, callVars, judgeVars, sessionVars, dispatchVars>>

SanitizeNext == Sanitize \/ SanitizeAgain

SpecSanitize == SanitizeInit /\ [][SanitizeNext]_vars

---------------------------------------------------------------------------
(* The session, one command at a time *)

ShellInit ==
    /\ heap = <<>> /\ tasks = <<>>
    /\ FreshHandles /\ NoLoop /\ NoCall /\ NoJudgment /\ NoOutput /\ NoDispatch
    /\ cmd \in Commands
    /\ sent = <<>>
    /\ returned = <<>>
    /\ op = "none"
    /\ NoBudget /\ NoReceive

ExecuteCmd ==
    /\ op = "none"
    /\ \E first \in Reads, second \in Reads :
          \E r \in {execute_cmd(cmd, first, second)} :
              /\ sent' = r.sent
              /\ returned' = r.out
              /\ channel' = <<first, second>>
    /\ op' = "execute_cmd"
    /\ UNCHANGED <<budgetVars, recv, chat>>
    /\ UNCHANGED <<cmd, planVars, loopVars, callVars, judgeVars, shellVars, dispatchVars>>

ShellNext == ExecuteCmd

SpecShell == ShellInit /\ [][ShellNext]_vars

---------------------------------------------------------------------------
(* Directive extraction, on every instruction *)

ExtractInit ==
    /\ heap = <<>> /\ tasks = <<>>
    /\ FreshHandles /\ NoLoop /\ NoCall /\ NoJudgment /\ NoOutput /\ NoSession
    /\ exec_action \in {"Shell", "Search"}
    /\ exec_instruction \in SeqsUpTo(InstructionTokens, MaxInstruction)
    /\ exec_code = <<>>
    /\ exec_response = <<>>
    /\ op = "none"
    /\ NoBudget /\ NoReceive

ParseResponse ==
    /\ op = "none"
    /\ returned' = parse_response(exec_action, exec_instruction)
    /\ op' = "parse_response"
    /\ UNCHANGED <<budgetVars, receiveVars>>
    /\ UNCHANGED <<cmd, sent, planVars, loopVars, callVars, judgeVars, shellVars, dispatchVars>>

ExtractNext == ParseResponse

SpecExtract == ExtractInit /\ [][ExtractNext]_vars

---------------------------------------------------------------------------
(* The dispatcher, one run of a task *)

DispatchInit ==
    /\ heap = <<>> /\ tasks = <<>>
    /\ FreshHandles /\ NoLoop /\ NoCall /\ NoJudgment /\ NoOutput /\ NoSession
    /\ exec_action \in ActionKinds
    /\ exec_instruction \in DispatchInstructions
    /\ exec_code = <<>>
    /\ exec_response = <<>>
    /\ op = "none"
    /\ NoBudget /\ NoReceive

\* what run() leaves: the fields of the ExecuteResult, or that it raised
Returned(r) ==
    /\ exec_response' = r.response
    /\ exec_code' = r.code
    /\ sent' = r.sent
    /\ status' = "ok"

\* run() by way of shell_operation; get_shell() stands before the try block
RunShell ==
    /\ op = "none"
    /\ \E mode \in Modes : Branch(mode, exec_action) = "shell"
    /\ \/ \E feed \in SeqsUpTo(Exchanges, MaxExchanges) :
             \E r \in {shell_operation(exec_instruction, feed)} :
                 Returned(r) /\ channel' = r.run
       \/ /\ status' = "raised"
          /\ exec_code' = parse_response("Shell", exec_instruction)
          /\ UNCHANGED <<exec_response, sent, channel>>
    /\ op' = "run_shell"
    /\ UNCHANGED <<budgetVars, recv, chat>>
    /\ UNCHANGED <<cmd, returned, exec_action, exec_instruction, json, old>>
    /\ UNCHANGED <<planVars, loopVars, judgeVars, shellVars>>

\* run() by way of search_operation
RunSearch ==
    /\ op = "none"
    /\ \E mode \in Modes : Branch(mode, exec_action) = "search"
    /\ \E feed \in SeqsUpTo(SearchOutcomes, MaxQueries) :
          \E r \in {search_operation(exec_instruction, exec_code, feed)} :
              Returned(r) /\ channel' = r.run
    /\ op' = "run_search"
    /\ UNCHANGED <<budgetVars, recv, chat>>
    /\ UNCHANGED <<cmd, returned, exec_action, exec_instruction, json, old>>
    /\ UNCHANGED <<planVars, loopVars, judgeVars, shellVars>>

\* run() by way of the operator's prompt
RunManual ==
    /\ op = "none"
    /\ \E mode \in Modes : Branch(mode, exec_action) = "prompt"
    /\ \E typed \in ManualEntries :
          Returned([response |-> typed, code |-> exec_code, sent |-> <<>>])
    /\ op' = "run_prompt"
    /\ UNCHANGED <<budgetVars, receiveVars>>
    /\ UNCHANGED <<cmd, returned, exec_action, exec_instruction, json, old>>
    /\ UNCHANGED <<planVars, loopVars, judgeVars, shellVars>>

DispatchNext == RunShell \/ RunSearch \/ RunManual

SpecDispatch == DispatchInit /\ [][DispatchNext]_vars

---------------------------------------------------------------------------
(* Claims about merge and import *)

MergeReturned == op = "merge" /\ status = "ok"

\* C1: every old task that is finished and successful is in the merged list,
\* as the same object with result and is_success unchanged, each such task
\* individually.
C1_EverySuccessfulOldTaskKept ==
    MergeReturned =>
        \A i \in 1..Len(old.tasks) :
            IsCompleted(old.heap, old.tasks[i]) =>
                /\ \E k \in 1..Len(tasks) : tasks[k] = old.tasks[i]
                /\ heap[old.tasks[i]].result = old.heap[old.tasks[i]].result
                /\ heap[old.tasks[i]].is_success

\* C2: the merged list is densely numbered: the task at position k has
\* sequence k, so no two entries share a sequence number.
C2_MergedSequenceDense ==
    MergeReturned =>
        \A k \in 1..Len(tasks) : heap[tasks[k]].sequence = k - 1

\* the position of the entry merge appends for spec p: the carried-over
\* tasks come first
EntryOfSpec(p) == Len(tasks) - Len(json) + p

\* C3: for an old finished-successful task with instruction I and a new spec
\* with instruction I, the merged entry for that spec is that task object,
\* result, is_finished and is_success preserved.
C3_MatchedSpecReusesOldTask ==
    MergeReturned =>
        \A i \in 1..Len(old.tasks), p \in 1..Len(json) :
            (IsCompleted(old.heap, old.tasks[i])
             /\ json[p].instruction = old.heap[old.tasks[i]].instruction) =>
                /\ tasks[EntryOfSpec(p)] = old.tasks[i]
                /\ heap[tasks[EntryOfSpec(p)]].result = old.heap[old.tasks[i]].result
                /\ heap[tasks[EntryOfSpec(p)]].is_finished
                /\ heap[tasks[EntryOfSpec(p)]].is_success

AllCompleted(ts, h) == \A k \in 1..Len(ts) : IsCompleted(h, ts[k])

ImportReturned == op = "import" /\ status = "ok"

\* every dependent id of every spec is the id of a spec of the list
DependentIdsKnown(tasks_json) ==
    \A i \in 1..Len(tasks_json) :
        \A d \in 1..Len(tasks_json[i].dependent_task_ids) :
            \E j \in 1..Len(tasks_json) :
                tasks_json[j].id = tasks_json[i].dependent_task_ids[d]

\* C5: for a spec list with valid dependent ids, import numbers the tasks
\* 0..N-1 by position and no task depends on a later-positioned task.
C5_ImportDependenciesNotLater ==
    (ImportReturned /\ DependentIdsKnown(json)) =>
        /\ Len(tasks) = Len(json)
        /\ \A k \in 1..Len(tasks) :
              /\ heap[tasks[k]].sequence = k - 1
              /\ \A d \in 1..Len(heap[tasks[k]].dependencies) :
                    heap[tasks[k]].dependencies[d] <= k - 1

\* C6: import fails with an error whenever a spec lacks a required field or
\* names a dependent id that no spec of the list has.
C6_ImportFailsOnMalformed ==
    (op = "import"
     /\ \/ \E i \in 1..Len(json) : json[i].keys # AllKeys
        \/ ~DependentIdsKnown(json)) =>
        status = "KeyError"

---------------------------------------------------------------------------
(* Claims about the planner loop *)

\* C7: in every reachable state of the planner, an unfinished task of the
\* plan has an empty result and a successful task is finished.
C7_TaskStatusInvariant ==
    \A k \in 1..Len(tasks) :
        /\ ~heap[tasks[k]].is_finished => heap[tasks[k]].result = ""
        /\ heap[tasks[k]].is_success => heap[tasks[k]].is_finished

\* after a recovery and a merge the plan holds a successful task with its
\* result next to a pending one
C7_Witness ==
    /\ round_log.path = "merged"
    /\ react_chat_id.resets >= 1
    /\ \E k \in 1..Len(tasks) : IsCompleted(heap, tasks[k]) /\ heap[tasks[k]].result # ""
    /\ \E k \in 1..Len(tasks) : ~heap[tasks[k]].is_finished

\* C8: every update_plan call, on each of its paths, leaves the task that was
\* current when it started finished, and exactly one task goes from pending
\* to finished.
C8_RoundFinishesCurrentTask ==
    op = "update_plan" =>
        /\ round_log.current_finished
        /\ round_log.newly_finished = 1

---------------------------------------------------------------------------
(* Claims about the success judgment *)

\* position i of resp lies in a reasoning block: an opening tag at or before
\* i whose nearest closing tag is at or after i
InThinkBlock(resp, i) ==
    \E a \in 1..i :
        /\ resp[a] = "<think>"
        /\ \A m \in (a + 1)..(i - 1) : resp[m] # "</think>"
        /\ \E c \in i..Len(resp) : c > a /\ resp[c] = "</think>"

OutsideThink(resp) == {i \in 1..Len(resp) : ~InThinkBlock(resp, i)}

\* the yes/no tokens outside the reasoning blocks that stand alone: the text
\* next to them, reasoning blocks skipped, is not a word
DecisionTokens(resp) ==
    {i \in OutsideThink(resp) :
        /\ resp[i] \in {"yes", "Yes", "no"}
        /\ LET left == {j \in OutsideThink(resp) : j < i}
               right == {j \in OutsideThink(resp) : j > i}
           IN  /\ left # {} => resp[SetMax(left)] \notin WordTokens
               /\ right # {} => resp[SetMin(right)] \notin WordTokens}

\* C9: for a judgment response that is parsed (one that is no rate-limit
\* signal), the task is marked finished, and successful exactly when the last
\* standalone yes/no token outside the reasoning blocks is a yes; with no
\* such token, or an empty response, it is marked failed.
C9_LastTokenOutsideThinkDecides ==
    (op = "judge" /\ verdict # "rate_limit") =>
        /\ heap[1].is_finished
        /\ heap[1].is_success <=>
              /\ DecisionTokens(response) # {}
              /\ response[SetMax(DecisionTokens(response))] \in {"yes", "Yes"}
        /\ verdict = IF heap[1].is_success THEN "success" ELSE "failed"

\* a yes inside a reasoning block followed by a no outside it was judged
\* a failure
C9_Witness ==
    /\ op = "judge"
    /\ verdict = "failed"
    /\ \E i \in 1..Len(response) : response[i] = "yes" /\ InThinkBlock(response, i)
    /\ DecisionTokens(response) # {}

---------------------------------------------------------------------------
(* Claims about the sanitizer *)

\* position i of text lies in a span from a conceal sequence to the next
\* reset sequence
InConcealedSpan(text, i) ==
    \E a \in 1..i :
        /\ text[a] = Conceal
        /\ \A m \in (a + 1)..(i - 1) : text[m] # Reset
        /\ \E c \in i..Len(text) : c > a /\ text[c] = Reset

\* the text from position i on, with the warning at the end of each span and
\* nothing else of a span
RECURSIVE SpansReplaced(_, _)
SpansReplaced(text, i) ==
    IF i > Len(text) THEN <<>>
    ELSE (IF ~InConcealedSpan(text, i) THEN <<text[i]>>
          ELSE IF text[i] = Reset THEN <<Warning>>
          ELSE <<>>) \o SpansReplaced(text, i + 1)

\* C10: the sanitized output has the warning in place of every span from a
\* conceal sequence to the next reset sequence and nothing of what was in
\* such a span, and keeps no conceal sequence with a reset sequence after it.
C10_ConcealedSpansReplaced ==
    op = "sanitize" =>
        /\ sanitized = SpansReplaced(output, 1)
        /\ \A i \in 1..Len(sanitized) :
              sanitized[i] = Conceal => \A j \in (i + 1)..Len(sanitized) : sanitized[j] # Reset
        /\ (\E i \in 1..Len(output) : InConcealedSpan(output, i)) =>
              \E k \in 1..Len(sanitized) : sanitized[k] = Warning

\* an output with two conceal sequences before a reset, text in the span and
\* text after it was sanitized
C10_Witness ==
    /\ op = "sanitize"
    /\ Cardinality({a \in IndexesOf(output, Conceal) : InConcealedSpan(output, a)}) >= 2
    /\ \E i \in IndexesOf(output, "x") : InConcealedSpan(output, i)
    /\ \E i \in IndexesOf(output, "x") : ~InConcealedSpan(output, i)
    /\ Warning \in {sanitized[k] : k \in 1..Len(sanitized)}

\* C11: sanitizing is idempotent: the sanitizer applied to its own result
\* returns that result, for every text.
C11_SanitizeIdempotent ==
    op = "resanitize" => sanitized = sanitize_ansi_concealed_payload(output)

\* a text with two spans, and a conceal sequence left over after the last
\* reset, was sanitized twice
C11_Witness ==
    /\ op = "resanitize"
    /\ Cardinality({c \in IndexesOf(output, Reset) : InConcealedSpan(output, c)}) >= 2
    /\ \E a \in IndexesOf(output, Conceal) : ~InConcealedSpan(output, a)
    /\ Conceal \in {sanitized[k] : k \in 1..Len(sanitized)}

---------------------------------------------------------------------------
(* Claims about the remote shell session *)

\* w stands in text as a whitespace-delimited word
HasWord(text, w) ==
    \E i \in 1..Len(text) :
        /\ i + Len(w) - 1 <= Len(text)
        /\ SubSeq(text, i, i + Len(w) - 1) = w
        /\ i = 1 \/ text[i - 1] \in Whitespace
        /\ i + Len(w) - 1 = Len(text) \/ text[i + Len(w)] \in Whitespace

Forbidden(c) == HasWord(c, <<"apt">>) \/ HasWord(c, <<"apt", "-get">>)

\* C13: a command with a word on the denylist (apt, apt-get) is answered with
\* the fixed refusal and nothing is sent on the channel; every other command
\* is sent exactly once.
C13_ForbiddenCommandNeverSent ==
    op = "execute_cmd" =>
        IF Forbidden(cmd)
        THEN returned = <<Refusal>> /\ sent = <<>>
        ELSE /\ sent # <<>> /\ sent[1] = Send("cmd", cmd \o <<"\n">>)
             /\ \A k \in 2..Len(sent) : sent[k].kind # "cmd"

\* a command whose second word is apt was refused
C13_Witness ==
    /\ op = "execute_cmd"
    /\ cmd = <<"ls", " ", "apt">>
    /\ returned = <<Refusal>>
    /\ sent = <<>>

---------------------------------------------------------------------------
(* Claims about the dispatcher *)

\* position i of instr lies in a reasoning section: an opening marker, in
\* any letter case, at or before i whose nearest closing marker is at or
\* after i
InReasoning(instr, i) ==
    \E a \in 1..i :
        /\ instr[a] \in ThinkOpen
        /\ \A m \in (a + 1)..(i - 1) : instr[m] \notin ThinkClose
        /\ \E c \in i..Len(instr) : c > a /\ instr[c] \in ThinkClose

\* the instruction outside its reasoning sections
Visible(instr) ==
    LET keep == Ascending({i \in 1..Len(instr) : ~InReasoning(instr, i)})
    IN  [k \in 1..Len(keep) |-> instr[keep[k]]]

NearestAfter(text, a, t) == SetMin({c \in IndexesOf(text, t) : c > a})

\* position a opens a tagged directive: an opening tag with a closing tag
\* after it, not inside a directive opened before it
RECURSIVE OpensDirective(_, _, _)
OpensDirective(text, a, tag) ==
    /\ text[a] = "<" \o tag \o ">"
    /\ \E c \in IndexesOf(text, "</" \o tag \o ">") : c > a
    /\ \A b \in 1..(a - 1) :
          OpensDirective(text, b, tag) => NearestAfter(text, b, "</" \o tag \o ">") < a

\* the trimmed contents of the tagged directives of text, in order
Tagged(text, tag) ==
    LET opens == Ascending({a \in 1..Len(text) : OpensDirective(text, a, tag)})
    IN  [k \in 1..Len(opens) |->
            Strip(SubSeq(text, opens[k] + 1,
                         NearestAfter(text, opens[k], "</" \o tag \o ">") - 1))]

\* C14: the directives extracted are, in order, the trimmed contents of the
\* tags of the action kind outside the reasoning sections (execute for Shell,
\* search for Search); for Search with no search-tagged content they are the
\* execute-tagged contents.
C14_DirectivesOutsideReasoning ==
    op = "parse_response" =>
        LET text == Visible(exec_instruction)
        IN  returned =
                IF exec_action = "Shell" THEN Tagged(text, "execute")
                ELSE IF Tagged(text, "search") # <<>> THEN Tagged(text, "search")
                ELSE Tagged(text, "execute")

\* an instruction with one directive inside a reasoning section written in
\* upper case and one after it gave the second only
C14_Witness ==
    /\ op = "parse_response"
    /\ exec_action = "Shell"
    /\ exec_instruction = <<"<THINK>", "<execute>", "</think>", "<execute>", "</execute>">>
    /\ returned = << <<>> >>

\* the text holds a conceal sequence with a reset sequence after it
HasConcealedSpan(text) ==
    \E a \in IndexesOf(text, Conceal) : \E c \in IndexesOf(text, Reset) : c > a

Ran == op \in {"run_shell", "run_search", "run_prompt"} /\ status = "ok"

\* C12: whatever the action kind and the path run() took, the response it
\* hands back holds no span from a conceal sequence to a later reset
\* sequence.
C12_EveryTranscriptSanitized ==
    Ran => ~HasConcealedSpan(exec_response)

---------------------------------------------------------------------------
(* Claims about conversation ids *)

\* C15: the conversation id derived for a task's elaboration has at most 32
\* characters: base + "_t<seq>" when that fits in 32 characters, and
\* otherwise 20 characters of a hash of the base followed by "_t<seq>".
C15_TaskConversationIdFits ==
    op = "next_task_details" =>
        \A e \in elaborations :
            LET id == e.conversation_id
                suffix == 2 + Digits(current_task_sequence)
            IN  /\ id.len <= 32
                /\ id.base = react_chat_id /\ id.seq = current_task_sequence
                /\ IF react_chat_id.len + suffix <= 32
                   THEN id.kind = "direct" /\ id.len = react_chat_id.len + suffix
                   ELSE id.kind = "hash" /\ id.len = 20 + suffix

\* a 32-character base id and a ten-digit sequence gave a hashed id of
\* exactly 32 characters
C15_Witness ==
    /\ op = "next_task_details"
    /\ react_chat_id.len = 32
    /\ current_task_sequence = 2147483647
    /\ \E e \in elaborations : e.conversation_id.kind = "hash" /\ e.conversation_id.len = 32

\* C17: over a run, the conversation id used to elaborate a task was not
\* used before to elaborate a task with another instruction.
C17_ElaborationIdsNotShared ==
    \A e1 \in elaborations, e2 \in elaborations :
        e1.conversation_id = e2.conversation_id => e1.instruction = e2.instruction

---------------------------------------------------------------------------
(* Claims about the context budget *)

\* C16: the token estimate is floor(length / 4), a text needs summarization
\* exactly when the estimate exceeds 4000, and when a text needs it every
\* text at least as long needs it too, the text doubled in particular.
C16_NeedsSummarizationMonotonic ==
    op = "needs_summarization" =>
        /\ 4 * budget.estimate <= content_len /\ content_len < 4 * budget.estimate + 4
        /\ budget.needs <=> budget.estimate > 4000
        /\ budget.needs => budget.needs_other

\* the shortest text over the limit and the same text doubled both need
\* summarization
C16_Witness ==
    /\ op = "needs_summarization"
    /\ content_len = 16004
    /\ budget.other = 2 * content_len
    /\ budget.needs /\ budget.needs_other

---------------------------------------------------------------------------
(* Claims about update_plan and plan *)

\* C18: when the revision is empty, an error response or malformed, the
\* task list after update_plan is the list the status update left: the same
\* tasks in the same order, with their sequence numbers and dependencies.
C18_FailedRevisionKeepsList ==
    (op = "update_plan" /\ round_log.path \in {"no_revision", "unparseable", "merge_failed"})
        => round_log.list_kept /\ round_log.numbering_kept

\* C19: when plan generation gives an empty, error-marked or unparseable
\* response, plan() returns no task, without raising, and the plan's task
\* list and conversation handles are as before.
C19_FailedPlanLeavesState ==
    (op = "plan" /\ round_log.path \in {"no_response", "unparseable", "malformed"})
        => /\ ~round_log.given
           /\ pc = "idle"
           /\ round_log.list_kept
           /\ round_log.handles_kept

\* a plan that finished its only task asked for a new plan, got nothing
\* usable, and kept its task
C19_Witness ==
    /\ op = "plan"
    /\ round_log.path = "unparseable"
    /\ tasks # <<>>
    /\ ~round_log.given

\* C20: when the judgment response is no rate-limit signal, the task that
\* was current is, at the return of update_plan, finished and successful
\* exactly as the flag parsed from the judgment says, whatever the plan
\* revision of the same call did.
C20_JudgmentFlagStands ==
    (op = "update_plan" /\ verdict # "rate_limit") => round_log.flag_kept

\* C21: when rate-limit recovery itself raises, the task that was current
\* when the rate limit was detected is not handed out again by the same
\* update_plan call.
C21_FailedRecoveryAdvances ==
    (op = "update_plan" /\ round_log.recovery = "failed") => ~round_log.again

\* C22: after a rate-limit recovery that ran to completion the plan's task
\* conversation handle is another handle than before, and the conversation
\* it names holds the clean restart message, also when the reset's call to
\* the model service failed.
C22_RecoveryOpensSeededConversation ==
    (op = "update_plan" /\ round_log.recovery = "done")
        => round_log.renewed /\ round_log.seeded

\* C23: when update_plan detects a rate-limit signal and recovery runs to
\* completion, the task that was current is finished and successful, its
\* result quotes at most the first 500 characters of the summary, and the
\* task is not handed out again.
C23_RecoveryFinishesCurrentTask ==
    (op = "update_plan" /\ round_log.recovery = "done")
        => /\ round_log.current_finished
           /\ round_log.current_success
           /\ round_log.excerpt <= SummaryExcerpt
           /\ ~round_log.again

\* C24: every update_plan call returns after a bounded number of requests:
\* the judgment is requested once, the revision at most twice (one
\* shortened retry after a rate-limit response) and rate-limit recovery is
\* entered at most once.
C24_UpdatePlanCallsBounded ==
    op = "update_plan"
        => /\ round_log.judgments = 1
           /\ round_log.revisions <= 2
           /\ round_log.recoveries <= 1

\* the revision was retried and its second response was again a rate-limit
\* signal, so that recovery ran
C24_Witness ==
    /\ op = "update_plan" /\ round_log.path = "recovered_revision"
    /\ round_log.revisions = 2 /\ round_log.recoveries = 1

\* C25: a judgment response that begins with the error marker is not parsed
\* as content: the current task is not marked successful, whatever yes or
\* no words the error text holds.
C25_ErrorMarkedJudgmentNotSuccess ==
    (op = "judge" /\ response # <<>> /\ response[1] = ErrorMarker)
        => ~heap[tasks[1]].is_success

\* C26: with initial handles of at most 32 characters, every conversation
\* handle the planner stores in the plan or passes to the model service
\* (task-detail, summarize, emergency, update, retry and reset handles) has
\* at most 32 characters, also after repeated recoveries.
C26_EveryHandleFits ==
    /\ react_chat_id.len <= MaxIdLen
    /\ plan_chat_id.len <= MaxIdLen
    /\ round_log.longest <= MaxIdLen

\* C27: successful work is not run again: the task an update_plan call
\* hands out is never one that was finished and successful, and in a
\* merged plan no pending task has the instruction of a finished and
\* successful task of that plan.
C27_SuccessfulWorkNotRerun ==
    /\ ~round_log.rerun
    /\ (op = "update_plan" /\ round_log.path = "merged") =>
          \A k \in 1..Len(tasks), j \in 1..Len(tasks) :
              (IsCompleted(heap, tasks[k]) /\ ~heap[tasks[j]].is_finished)
                  => heap[tasks[k]].instruction # heap[tasks[j]].instruction

\* a merge kept the successful task A, matched by a spec of the revision,
\* next to the new pending task B, which is handed out
C27_Witness ==
    /\ op = "update_plan" /\ round_log.path = "merged" /\ pc = "executing"
    /\ Len(tasks) = 2
    /\ IsCompleted(heap, tasks[1]) /\ heap[tasks[1]].instruction = "A"
    /\ ~heap[tasks[2]].is_finished /\ heap[tasks[2]].instruction = "B"
    /\ heap[tasks[2]].dependencies = <<0>>

\* the merged positions (0-based) of the specs whose ids spec p names as
\* dependents; a spec without an id is named by none
NamedPositions(p) ==
    {EntryOfSpec(q) - 1 : q \in {x \in 1..Len(json) :
        /\ HasKey(json[x], "id")
        /\ \E d \in 1..Len(json[p].dependent_task_ids) :
              json[p].dependent_task_ids[d] = json[x].id}}

DependenciesOf(o) == {heap[o].dependencies[d] : d \in 1..Len(heap[o].dependencies)}

\* C28: in a merged list the dependencies of the task built from or matched
\* to a spec are exactly the merged positions of the specs whose ids it
\* names; every dependency lies in 0..N-1 and no task depends on its own
\* position.
C28_MergedDependenciesExact ==
    MergeReturned =>
        \A p \in 1..Len(json) :
            /\ DependenciesOf(tasks[EntryOfSpec(p)]) = NamedPositions(p)
            /\ \A x \in DependenciesOf(tasks[EntryOfSpec(p)]) : x \in 0..(Len(tasks) - 1)
            /\ (EntryOfSpec(p) - 1) \notin DependenciesOf(tasks[EntryOfSpec(p)])

---------------------------------------------------------------------------
(* Claims about the receive loop *)

\* C29: the receive loop terminates whatever the channel does; it is left
\* at the latest at the first look at the clock after the timeout has
\* elapsed and as soon as the retry counter reaches 3, and on the timeout
\* exit, and only then, an interrupt has been sent.
C29_ReceiveLoopTerminates ==
    /\ <>(recv.pc = "returned")
    /\ [](recv.pc = "polling" => (recv.elapsed <= recv.timeout /\ recv.retries < 3))
    /\ [](recv.exit = "timeout" <=> recv.sent = <<Interrupt>>)
    /\ [](recv.exit # "timeout" => recv.sent = <<>>)

\* a channel that never gave any output: the loop was left on the timeout
C29_Witness ==
    /\ recv.pc = "returned" /\ recv.exit = "timeout"
    /\ recv.last = "" /\ recv.sent = <<Interrupt>>

\* the automatic answers among what a command sent
YesCount == Cardinality({k \in 1..Len(sent) : sent[k] = Yes})

\* C30: a command whose first captured output ends in a line holding a
\* known confirmation phrase is answered 'yes' exactly once, whatever the
\* follow-up output ends in, and a command whose last line holds none is
\* not answered.
C30_YesSentOnce ==
    (op = "execute_cmd" /\ check_forbidden_commands(cmd) = "None") =>
        YesCount = (IF HasConfirmationPhrase(LastLine(channel[1].data)) THEN 1 ELSE 0)

\* the same with the phrases taken as the lower-cased last line matches them
C30_YesSentOnceAsMatched ==
    (op = "execute_cmd" /\ check_forbidden_commands(cmd) = "None") =>
        /\ YesCount <= 1
        /\ YesCount = 1 <=> \E k \in 1..Len(LastLine(channel[1].data)) :
               LowerText(LastLine(channel[1].data)[k]) \in ConfirmationPatterns

\* a question answered once although the follow-up asks again
C30_AnsweredOnce ==
    /\ op = "execute_cmd" /\ YesCount = 1
    /\ HasConfirmationPhrase(LastLine(channel[2].data))

\* C31: whenever the captured output holds the configuration-file question
\* anywhere, the poll that sees it leaves the loop as done, whatever the
\* last non-empty line is.
C31_ConfigQuestionEndsLoop ==
    recv.config => (recv.pc = "returned" /\ recv.exit = "prompt")

\* the question is recognised when a line of plain text follows it
C31_QuestionBeforeText ==
    /\ recv.config /\ recv.last = "x"
    /\ recv.pc = "returned" /\ recv.exit = "prompt"

\* C40: the receive loop sends on the channel only when it is left through
\* the wall-clock timeout, and then the interrupt; left on a recognised
\* prompt or on the third retry it has sent nothing.
C40_InterruptOnlyOnTimeout ==
    /\ recv.exit \in {"prompt", "retries"} => recv.sent = <<>>
    /\ recv.sent # <<>> => (recv.exit = "timeout" /\ recv.sent = <<Interrupt>>)

\* the third retry counted at a poll that also found the timeout exceeded
C40_Witness ==
    /\ recv.pc = "returned" /\ recv.exit = "retries"
    /\ recv.elapsed > recv.timeout /\ recv.sent = <<>>

---------------------------------------------------------------------------
(* Claims about a Shell run *)

\* the password-style prompts: a plain one, a 'Password for' one and the
\* one of sudo
PasswordStylePrompts == {"password:", "Password for", "[sudo] password for"}

AtPasswordStylePrompt(out, prompts) == Contains(LastLine(out), prompts)

\* a run that returned its transcript: no call raised
ShellRunDone == op = "run_shell" /\ status = "ok" /\ ~channel.failed

\* The calls from position k of the log on are those of the directives from
\* i on: each directive is called once and in order; after a password-style
\* prompt the next directive follows at once, and when that ends at such a
\* prompt too, an interrupt and the same directive once more.  An interrupt
\* may follow a prompt that ends the list.
RECURSIVE PasswordProtocol(_, _, _, _, _)
PasswordProtocol(log, k, directives, i, prompts) ==
    IF i > Len(directives) THEN k > Len(log)
    ELSE /\ k <= Len(log)
         /\ log[k] = Called(directives[i], log[k].out)
         /\ IF ~AtPasswordStylePrompt(log[k].out, prompts)
            THEN PasswordProtocol(log, k + 1, directives, i + 1, prompts)
            ELSE IF i = Len(directives)
            THEN k = Len(log) \/ (k + 1 = Len(log) /\ log[k + 1] = Interrupted)
            ELSE /\ k + 1 <= Len(log)
                 /\ log[k + 1] = Called(directives[i + 1], log[k + 1].out)
                 /\ IF ~AtPasswordStylePrompt(log[k + 1].out, prompts)
                    THEN PasswordProtocol(log, k + 2, directives, i + 2, prompts)
                    ELSE /\ k + 3 <= Len(log)
                         /\ log[k + 2] = Interrupted
                         /\ log[k + 3] = Called(directives[i + 1], log[k + 3].out)
                         /\ PasswordProtocol(log, k + 4, directives, i + 2, prompts)

NoSubShellRejection ==
    \A k \in 1..Len(channel.calls) : ~SubShellRejected(channel.calls[k].out)

\* the entries of the raw transcript
Entries(transcript) == Cardinality(IndexesOf(transcript, "Action:"))

\* C32: in a Shell run, after an output ending at a password-style prompt
\* the next directive is sent at once and not again in its own turn; when
\* that send ends at a password prompt too, one interrupt goes out, the
\* attempt's entry is dropped and the directive is sent once more; every
\* other directive is sent once, in order, and has one entry.
C32_PasswordProtocol ==
    (ShellRunDone /\ NoSubShellRejection) =>
        /\ PasswordProtocol(channel.calls, 1, exec_code, 1, PasswordStylePrompts)
        /\ Entries(channel.transcript) = Len(exec_code)

\* the same for the prompts the run's own list holds
C32_PasswordProtocolAsListed ==
    (ShellRunDone /\ NoSubShellRejection) =>
        /\ PasswordProtocol(channel.calls, 1, exec_code, 1, PASSWORD_PROMPTS)
        /\ Entries(channel.transcript) = Len(exec_code)

\* a run whose password was refused: the directive was called twice
C32_PasswordRefused ==
    /\ ShellRunDone /\ Len(exec_code) = 3 /\ Len(channel.calls) = 5
    /\ channel.calls[3] = Interrupted
    /\ channel.calls[5].c = exec_code[3]

NoPasswordPrompt ==
    \A k \in 1..Len(channel.calls) :
        ~AtPasswordStylePrompt(channel.calls[k].out, PasswordStylePrompts \cup PASSWORD_PROMPTS)

\* The transcript of a run whose calls from position k on are those of the
\* directives from i on, a directive the sub-shell rejected being followed
\* by 'exit' and by the same directive once more, whose output is the one
\* observation of its entry; Mismatch when the calls are others.
Mismatch == <<"mismatch">>

RECURSIVE SubShellTranscript(_, _, _, _)
SubShellTranscript(log, k, directives, i) ==
    IF i > Len(directives) THEN (IF k > Len(log) THEN <<>> ELSE Mismatch)
    ELSE IF k > Len(log) \/ log[k] # Called(directives[i], log[k].out) THEN Mismatch
    ELSE IF ~SubShellRejected(log[k].out)
    THEN LET rest == SubShellTranscript(log, k + 1, directives, i + 1)
         IN  IF rest = Mismatch THEN Mismatch
             ELSE Entry(directives[i]) \o log[k].out \o <<"\n">> \o rest
    ELSE IF \/ k + 2 > Len(log)
            \/ log[k + 1] # Called(<<"exit">>, log[k + 1].out)
            \/ log[k + 2] # Called(directives[i], log[k + 2].out)
    THEN Mismatch
    ELSE LET rest == SubShellTranscript(log, k + 3, directives, i + 1)
         IN  IF rest = Mismatch THEN Mismatch
             ELSE Entry(directives[i]) \o log[k + 2].out \o <<"\n">> \o rest

\* C33: in a Shell run, a directive whose output ends at a sub-shell prompt
\* after a line reporting an invalid command is followed by 'exit' and by
\* the same directive once more, and the transcript has one entry for it,
\* with the output of the second attempt and without that of the first.
C33_SubShellRetry ==
    (ShellRunDone /\ NoPasswordPrompt) =>
        channel.transcript = SubShellTranscript(channel.calls, 1, exec_code, 1)

\* the same for first attempts whose output does not hold the entry mark
C33_SubShellRetryPlainOutput ==
    (/\ ShellRunDone /\ NoPasswordPrompt
     /\ \A k \in 1..Len(channel.calls) : ~Contains(channel.calls[k].out, {"Action:"})) =>
        channel.transcript = SubShellTranscript(channel.calls, 1, exec_code, 1)

\* a run that left the sub-shell and issued its directive again
C33_Reissued ==
    /\ ShellRunDone /\ NoPasswordPrompt
    /\ Len(channel.calls) >= 3
    /\ SubShellRejected(channel.calls[1].out)
    /\ channel.calls[2].c = <<"exit">>
    /\ channel.calls[3].c = exec_code[1]

\* C34: every error raised in a Shell run, while the session is obtained or
\* while a directive is executed, makes the run return the advisory
\* transcript as its result; the run does not raise.
C34_ShellErrorsBecomeAdvisory ==
    op = "run_shell" =>
        /\ status = "ok"
        /\ channel.failed => exec_response = <<Advisory>>

\* the same for the errors raised by a call on the session obtained
C34_CallErrorsBecomeAdvisory ==
    (op = "run_shell" /\ status = "ok" /\ channel.failed) => exec_response = <<Advisory>>

\* a run whose second call raised
C34_SecondCallRaised ==
    /\ op = "run_shell" /\ status = "ok" /\ channel.failed
    /\ Len(channel.calls) = 1 /\ exec_response = <<Advisory>>

---------------------------------------------------------------------------
(* Claims about a Search run *)

\* a candidate that looks like a shell invocation: a shell metacharacter in
\* it, or a tool name as its first word, in either case
LooksLikeShell(query) ==
    \/ \E k \in 1..Len(query) : query[k] \in CommandDelimiters
    \/ /\ Split(Strip(query)) # <<>>
       /\ LowerAll(Split(Strip(query))[1]) \in {<<w>> : w \in CommandKeywords}

Acceptable(query) == Strip(query) # <<>> /\ ~LooksLikeShell(query)

\* a Search run that was not aborted
SearchRunDone ==
    op = "run_search" /\ exec_response # <<"Search operation failed: e">>

\* C35: a Search run sends no candidate that holds a shell metacharacter or
\* starts with a tool name, sends every other non-empty candidate, in
\* order, and leaves exactly the queries sent as the directive list.
C35_OnlyAcceptableQueriesSent ==
    SearchRunDone =>
        LET candidates == parse_response("Search", exec_instruction)
            accepted == SelectSeq(candidates, Acceptable)
        IN  /\ sent = [k \in 1..Len(accepted) |-> Send("query", Strip(accepted[k]))]
            /\ exec_code = [k \in 1..Len(accepted) |-> Strip(accepted[k])]

\* a run with a candidate refused and a candidate sent
C35_Witness ==
    /\ SearchRunDone
    /\ Len(parse_response("Search", exec_instruction)) = 2
    /\ LooksLikeShell(parse_response("Search", exec_instruction)[1])
    /\ Len(sent) = 1 /\ Len(exec_code) = 1

\* the collaborator failed for a query of the run: the search raised inside
\* search_security_intelligence, or the call itself raised
CollaboratorFailed == \E k \in 1..Len(channel) : channel[k] # "summary"

FirstFailure == SetMin({k \in 1..Len(channel) : channel[k] # "summary"})

\* C36: a Search run in which the collaborator fails for a query is
\* aborted: the failing query is the last one sent, the directive list is
\* empty and the transcript is the failure transcript alone.
C36_CollaboratorFailureAborts ==
    (op = "run_search" /\ CollaboratorFailed) =>
        /\ Len(sent) = FirstFailure
        /\ exec_code = <<>>
        /\ exec_response = <<"Search operation failed: e">>

\* the same for a failure that reaches search_operation as an exception
C36_RaisedFailureAborts ==
    (op = "run_search" /\ CollaboratorFailed /\ channel[FirstFailure] = "raised") =>
        /\ Len(sent) = FirstFailure
        /\ exec_code = <<>>
        /\ exec_response = <<"Search operation failed: e">>

\* a run aborted at its second query
C36_AbortedAtSecond ==
    /\ op = "run_search" /\ channel = <<"summary", "raised">>
    /\ exec_code = <<>> /\ Len(sent) = 2

---------------------------------------------------------------------------
(* Claims about the model service and the summarizer *)

\* the fallback summary of a text: its highlights, its first 300 characters
\* and, when it has more than 600, its last 300
FallbackSummary(content) ==
    [kind |-> "fallback",
     parts |-> (IF 1 \in content.found THEN <<"VULNERABILITIES">> ELSE <<>>)
                  \o (IF 2 \in content.found THEN <<"OPEN PORTS">> ELSE <<>>)
                  \o (IF 3 \in content.found THEN <<"SERVICES">> ELSE <<>>)
                  \o (IF 4 \in content.found THEN <<"ERRORS">> ELSE <<>>)
                  \o <<"CONTENT PREVIEW">>
                  \o (IF content.len > 600 THEN <<"CONTENT ENDING">> ELSE <<>>),
     preview |-> 300,
     ending |-> IF content.len > 600 THEN 300 ELSE 0]

\* C37: for a text that needs summarization, summarize_content returns the
\* fallback summary whenever the model's response is empty or starts with
\* the error marker or the model call raises; it returns neither of those
\* responses and does not raise.
C37_FallbackOnFailedSummary ==
    (/\ op = "summarize_content"
     /\ needs_summarization_of_length(chat.input.content.len)
     /\ chat.input.reply \in {"empty", "None", "error_text", "raised"}) =>
        chat.result = FallbackSummary(chat.input.content)

\* an error-marked response to a text with ports and errors in it
C37_Witness ==
    /\ op = "summarize_content"
    /\ chat.input.reply = "error_text" /\ chat.input.content.found = {2, 4}
    /\ chat.result.kind = "fallback"
    /\ chat.result.parts = <<"OPEN PORTS", "ERRORS", "CONTENT PREVIEW", "CONTENT ENDING">>

\* C38: a _chat call without a conversation handle returns a pair of the
\* response text and the new handle whatever happens, so that the caller
\* that takes the pair apart does not fail on it.
C38_HandlelessCallGivesPair ==
    /\ (op = "_chat" /\ chat.input.handle = "none") => chat.result.shape = "pair"
    /\ op = "write_code" => chat.result.raised = "no"

\* the same for calls in which nothing fails before the result is built
C38_ServedCallGivesPair ==
    /\ (/\ op \in {"_chat", "write_code"}
        /\ chat.input.handle = "none"
        /\ chat.input.llm_model # "other"
        /\ chat.input.client # "raised"
        /\ chat.input.store = "serves")
       => (IF op = "_chat" THEN chat.result.shape = "pair" ELSE chat.result.raised = "no")

\* a client that answers with an error-marked text still gives a pair
C38_ErrorTextInPair ==
    /\ op = "_chat" /\ chat.input.handle = "none"
    /\ chat.result = Pair("error_text")

---------------------------------------------------------------------------
(* Claims about the flags of a merged plan *)

\* the task at position k of the merged list is a task of the old list
CarriedOver(k) == \E i \in 1..Len(old.tasks) : old.tasks[i] = tasks[k]

\* C39: after a merge that returned, no task of the plan is finished and
\* unsuccessful: a task carried over from the old list was finished and
\* successful there and is so still, and every other task is unfinished.
C39_NoFailedTaskAfterMerge ==
    MergeReturned =>
        \A k \in 1..Len(tasks) :
            /\ ~(heap[tasks[k]].is_finished /\ ~heap[tasks[k]].is_success)
            /\ IF CarriedOver(k)
               THEN /\ old.heap[tasks[k]].is_finished /\ old.heap[tasks[k]].is_success
                    /\ heap[tasks[k]].is_finished /\ heap[tasks[k]].is_success
               ELSE ~heap[tasks[k]].is_finished

\* a merge of a list with a failed and a successful task that kept the
\* successful one, dropped the failed one and added a new one
C39_Witness ==
    /\ MergeReturned
    /\ \E i \in 1..Len(old.tasks) :
          /\ old.heap[old.tasks[i]].is_finished /\ ~old.heap[old.tasks[i]].is_success
          /\ \A k \in 1..Len(tasks) : tasks[k] # old.tasks[i]
    /\ \E k \in 1..Len(tasks) : CarriedOver(k)
    /\ \E k \in 1..Len(tasks) : ~CarriedOver(k)

=============================================================================
